---- MODULE Spec2Model ----
(***************************************************************************)
(* GradeMate AI (matthewignash/Teaching-Tools): the in-memory assessment   *)
(* store of App.tsx, the handlers of RubricSetup, StudentSetup and         *)
(* GradingView that replace it, the asynchronous completions that write    *)
(* an assessment derived from the snapshot their closure captured, and     *)
(* the PDF splitter of pdfSplittingService.ts.                             *)
(*                                                                         *)
(* Strings are sequences of one-character strings, so that trim() and      *)
(* toUpperCase() are computed and not assumed.  The empty sequence stands  *)
(* for both '' and undefined: the code only tests such fields for          *)
(* truthiness.  Payload no decision reads (question text, criteria,        *)
(* comment text, file bytes, file names, isAiSuggested) is left out; the   *)
(* comment edit itself is kept because it creates the grade entry and      *)
(* marks the student GRADED.  Scores are integers.                         *)
(***************************************************************************)
EXTENDS Integers, Sequences, FiniteSets, TLC

\* ---------------------------------------------------------------- bounds
MaxItems    == 2   \* rubric items ever created by addQuestion
MaxStudents == 2   \* students ever created
MaxPoints   == 1   \* largest point value typed or suggested
MaxInflight == 2   \* asynchronous operations in flight at once
MaxResults  == 1   \* length of an AI grading response
MaxSteps    == 6   \* handler runs and completions from the empty assessment
MaxGradingSteps == 2 \* handler runs and completions from a prepared assessment
MaxRaceSteps == 3  \* handler runs and completions of a session with work in flight
MaxModalSteps == 5 \* handler runs and completions of a session with the split modal
MaxEditSteps == 2  \* grade edits of a manual grading session
MaxPrepared == 1   \* students of a prepared assessment
MaxPages    == 4   \* pages of a split source
MaxRanges   == 2   \* ranges handed to the splitter
MaxBulkPages == 2  \* pages of a bulk file offered to the split modal
MaxTextLen  == 3   \* tokens of a response text
MaxCalls    == 2   \* invocations of the gateway in a run
MaxShown    == 3   \* students of an assessment shown by Analytics
MaxLoads    == 3   \* PDF loads started in a run

NoStudent == 0     \* selectedStudentId === null (ids are 1..MaxStudents)

VARIABLES
  assessment,        \* App.tsx useState<Assessment>: [rubric, students]
  currentView,       \* App.tsx useState currentView
  selectedStudentId, \* GradingView useState
  isAutoGrading,     \* GradingView useState
  isProcessing,      \* StudentSetup useState
  inflight,          \* pending asynchronous completions with their closures
  nextQuestion,      \* rubric items created so far (fresh ids)
  nextStudent,       \* students created so far (fresh ids)
  steps,             \* handler runs and completions so far
  budget,            \* handler runs and completions the specification follows
  lastOp,            \* history: the handler that ran last and its arguments
  lastInput,         \* history: per student and item, the score last typed or suggested
  pageCount,         \* splitter input: pdfDoc.getPageCount()
  ranges,            \* splitter input: SplitRange[]
  splitResult,       \* splitter outcome
  isGenerating,      \* RubricSetup useState
  error,             \* RubricSetup useState: the message shown, "" for null
  importError,       \* StudentSetup useState: the message shown, "" for null
  showSplitModal,    \* StudentSetup useState
  bulkFile,          \* StudentSetup useState: the page count of the file, 0 for null
  detectedRanges,    \* StudentSetup useState
  splitStage,        \* StudentSetup useState
  alertShown,        \* the message of the last window.alert, "" for none
  gateway,           \* one invocation of an AI gateway operation
  analytics,         \* what Analytics renders and exports
  viewer,            \* GradingView: pdfPages, isPdfLoading and the loads in flight
  analysedFiles      \* history: the bulk files whose detected ranges were stored

appVars   == <<assessment, currentView, selectedStudentId, isAutoGrading,
               isProcessing, inflight, nextQuestion, nextStudent, steps,
               budget, lastOp, lastInput>>
splitVars == <<pageCount, ranges, splitResult>>
uiVars    == <<isGenerating, error, importError, showSplitModal, bulkFile,
               detectedRanges, splitStage, alertShown>>
serviceVars == <<gateway, analytics, viewer, analysedFiles>>
vars      == <<appVars, splitVars, uiVars, serviceVars>>

\* ---------------------------------------------------------------- strings
Upper(c) == CASE c = "a" -> "A" [] c = "b" -> "B" [] OTHER -> c

ToUpperCase(s) == [i \in 1..Len(s) |-> Upper(s[i])]

RECURSIVE TrimStart(_)
TrimStart(s) == IF s # <<>> /\ Head(s) = " " THEN TrimStart(Tail(s)) ELSE s

RECURSIVE TrimEnd(_)
TrimEnd(s) ==
  IF s # <<>> /\ s[Len(s)] = " " THEN TrimEnd(SubSeq(s, 1, Len(s) - 1)) ELSE s

Trim(s) == TrimEnd(TrimStart(s))

Truthy(s) == s # <<>>

\* ---------------------------------------------------------------- inputs
Views == {"SETUP", "STUDENTS", "GRADING", "RESULTS"}

QuestionTypes == {"FRQ", "MCQ"}

\* what the user can type into the one-character Student field
AnswerInputs == {<<>>, <<"b">>, <<"A">>, <<" ">>}

\* what the user can type into the one-character Key field of the grading view
KeyInputs == {<<>>, <<"b">>, <<"a">>}

\* what the user can type into the Correct Answer field of the rubric setup
RubricKeyInputs == {<<>>, <<"a">>, <<"b", " ">>}

\* letters the grading model can report as the detected answer
AiAnswers == {<<>>, <<" ", "b">>}

Points == 0..MaxPoints

ItemIds == 1..MaxItems

StudentIds == 1..MaxStudents

\* ids a grading response can carry: MaxItems + 1 matches no rubric item
ResultIds == 1..(MaxItems + 1)

GradeFields == {"score", "studentAnswer", "comment"}

\* Partial<QuestionGrade> as the call sites of handleGradeChange build it
GradeData(fields, score, answer) ==
  [fields |-> fields, score |-> score, studentAnswer |-> answer]

NoGradeData == GradeData({}, 0, <<>>)

AiResults == [questionId : ResultIds, score : {0, MaxPoints}, studentAnswer : AiAnswers]

RECURSIVE SeqsUpTo(_, _)
SeqsUpTo(S, n) ==
  IF n = 0 THEN {<<>>}
  ELSE LET shorter == SeqsUpTo(S, n - 1)
       IN shorter \cup {Append(q, x) : q \in {r \in shorter : Len(r) = n - 1}, x \in S}

AiResponses == SeqsUpTo(AiResults, MaxResults)

\* ---------------------------------------------------------------- data model
RubricItem(id, maxPoints, type, correctAnswer) ==
  [id |-> id, maxPoints |-> maxPoints, type |-> type, correctAnswer |-> correctAnswer]

QuestionGrade(score, answer) == [score |-> score, studentAnswer |-> answer]

StudentSubmission(id, hasFile, grades, status, totalScore) ==
  [id |-> id, hasFile |-> hasFile, grades |-> grades, status |-> status,
   totalScore |-> totalScore]

\* grades: {} of a new student
EmptyGrades == [q \in {} |-> QuestionGrade(0, <<>>)]

initialAssessment == [rubric |-> <<>>, students |-> <<>>]

\* Array.prototype.find on the rubric: index of the first item with this id, 0 if none
ItemIndex(rubric, id) ==
  IF \E i \in 1..Len(rubric) : rubric[i].id = id
  THEN CHOOSE i \in 1..Len(rubric) :
         /\ rubric[i].id = id
         /\ \A j \in 1..(i - 1) : rubric[j].id # id
  ELSE 0

\* Array.prototype.find on the students: index of the first student with this id
StudentIndex(students, id) ==
  IF \E i \in 1..Len(students) : students[i].id = id
  THEN CHOOSE i \in 1..Len(students) :
         /\ students[i].id = id
         /\ \A j \in 1..(i - 1) : students[j].id # id
  ELSE 0

\* a map that puts the updated record in every place
ReplaceEveryStudent(students, id, updated) ==
  [i \in 1..Len(students) |-> updated]

\* students.map(s => s.id === id ? updated : s)
ReplaceStudent(students, id, updated) ==
  [i \in 1..Len(students) |-> IF students[i].id = id THEN updated ELSE students[i]]

\* { ...grades, [questionId]: grade }
PutGrade(grades, questionId, grade) ==
  [q \in DOMAIN grades \cup {questionId} |->
     IF q = questionId THEN grade ELSE grades[q]]

\* Object.values(grades).reduce((sum, g) => sum + g.score, 0)
RECURSIVE SumOver(_, _)
SumOver(grades, keys) ==
  IF keys = {} THEN 0
  ELSE LET q == CHOOSE k \in keys : TRUE
       IN grades[q].score + SumOver(grades, keys \ {q})

SumScores(grades) == SumOver(grades, DOMAIN grades)

\* the comparison of GradingView.tsx 92-95, 137-138, 182-183
McqScore(maxPoints, studentAnswer, correctAnswer) ==
  IF ToUpperCase(Trim(studentAnswer)) = ToUpperCase(Trim(correctAnswer))
  THEN maxPoints ELSE 0

\* ---------------------------------------------------------------- GradingView: pure parts
\* a recalculation that keeps a score passed along with the letter
NewGradeDataKeepsScore(rubric, questionId, gradeData) ==
  LET i == ItemIndex(rubric, questionId) IN
  IF /\ i # 0
     /\ rubric[i].type = "MCQ"
     /\ "studentAnswer" \in gradeData.fields
     /\ Truthy(rubric[i].correctAnswer)
  THEN LET newVal == ToUpperCase(Trim(gradeData.studentAnswer))
       IN GradeData(gradeData.fields \cup {"score"},
                    IF "score" \in gradeData.fields THEN gradeData.score
                    ELSE McqScore(rubric[i].maxPoints, newVal, rubric[i].correctAnswer),
                    newVal)
  ELSE gradeData

\* handleGradeChange, lines 87-97: the grade data after the MCQ recalculation
NewGradeData(rubric, questionId, gradeData) ==
  LET i == ItemIndex(rubric, questionId) IN
  IF /\ i # 0
     /\ rubric[i].type = "MCQ"
     /\ "studentAnswer" \in gradeData.fields
     /\ Truthy(rubric[i].correctAnswer)
  THEN LET newVal == ToUpperCase(Trim(gradeData.studentAnswer))
       IN GradeData(gradeData.fields \cup {"score"},
                    McqScore(rubric[i].maxPoints, newVal, rubric[i].correctAnswer),
                    newVal)
  ELSE gradeData

\* { ...currentGrade, ...newGradeData }
SpreadGrade(currentGrade, newGradeData) ==
  QuestionGrade(
    IF "score" \in newGradeData.fields THEN newGradeData.score ELSE currentGrade.score,
    IF "studentAnswer" \in newGradeData.fields
    THEN newGradeData.studentAnswer ELSE currentGrade.studentAnswer)

\* an edit that stores the grade and the total and leaves the status alone
GradeChangeKeepsStatus(student, rubric, questionId, gradeData) ==
  LET newGradeData == NewGradeData(rubric, questionId, gradeData)
      currentGrade == IF questionId \in DOMAIN student.grades
                      THEN student.grades[questionId]
                      ELSE QuestionGrade(0, <<>>)
      newGrades    == PutGrade(student.grades, questionId,
                               SpreadGrade(currentGrade, newGradeData))
  IN [student EXCEPT !.grades = newGrades,
                     !.totalScore = SumScores(newGrades)]

\* handleGradeChange, lines 99-113: the updated student
GradeChangeStudent(student, rubric, questionId, gradeData) ==
  LET newGradeData == NewGradeData(rubric, questionId, gradeData)
      currentGrade == IF questionId \in DOMAIN student.grades
                      THEN student.grades[questionId]
                      ELSE QuestionGrade(0, <<>>)
      newGrades    == PutGrade(student.grades, questionId,
                               SpreadGrade(currentGrade, newGradeData))
  IN [student EXCEPT !.grades = newGrades,
                     !.totalScore = SumScores(newGrades),
                     !.status = "GRADED"]

\* handleKeyChange, lines 124-126: the updated rubric
KeyChangeRubric(rubric, questionId, newKey) ==
  [i \in 1..Len(rubric) |->
     IF rubric[i].id = questionId
     THEN [rubric[i] EXCEPT !.correctAnswer = ToUpperCase(newKey)]
     ELSE rubric[i]]

\* handleKeyChange, lines 129-157: the updated students; sel is the index of
\* the selected student in students, 0 when there is none
KeyChangeStudents(students, sel, updatedRubric, questionId, newKey) ==
  IF sel = 0 THEN students
  ELSE
    LET selectedStudent == students[sel]
        i == ItemIndex(updatedRubric, questionId)
    IN IF /\ i # 0
          /\ questionId \in DOMAIN selectedStudent.grades
          /\ Truthy(selectedStudent.grades[questionId].studentAnswer)
       THEN LET currentGrade == selectedStudent.grades[questionId]
                newScore  == McqScore(updatedRubric[i].maxPoints,
                                      currentGrade.studentAnswer, newKey)
                newGrades == PutGrade(selectedStudent.grades, questionId,
                                      [currentGrade EXCEPT !.score = newScore])
                updatedStudent == [selectedStudent EXCEPT
                                     !.grades = newGrades,
                                     !.totalScore = SumScores(newGrades)]
            IN ReplaceStudent(students, selectedStudent.id, updatedStudent)
       ELSE students

\* a merge that trusts the suggested score of every result
FinalScoreVerbatim(rubric, res) == res.score

\* runAiGrading, lines 178-184: the score stored for one result
FinalScore(rubric, res) ==
  LET i == ItemIndex(rubric, res.questionId) IN
  IF /\ i # 0
     /\ rubric[i].type = "MCQ"
     /\ Truthy(rubric[i].correctAnswer)
     /\ Truthy(res.studentAnswer)
  THEN McqScore(rubric[i].maxPoints, res.studentAnswer, rubric[i].correctAnswer)
  ELSE res.score

\* runAiGrading, lines 173-193: results.forEach over newGrades and newTotal
RECURSIVE MergeResults(_, _, _, _)
MergeResults(newGrades, newTotal, rubric, results) ==
  IF results = <<>> THEN [grades |-> newGrades, total |-> newTotal]
  ELSE LET res == Head(results)
           finalScore == FinalScore(rubric, res)
       IN MergeResults(
            PutGrade(newGrades, res.questionId,
                     QuestionGrade(finalScore, res.studentAnswer)),
            newTotal + finalScore, rubric, Tail(results))

\* runAiGrading, lines 173-200: the updated student
AiGradedStudent(student, rubric, results) ==
  LET merged == MergeResults(student.grades, 0, rubric, results)
  IN [student EXCEPT !.grades = merged.grades,
                     !.totalScore = merged.total,
                     !.status = "GRADED"]

\* ---------------------------------------------------------------- pdfSplittingService
\* a SplitRange; the i-th range of a request carries the i-th name
StudentName(i) ==
  CASE i = 1 -> "Alice" [] i = 2 -> "Bob" [] i = 3 -> "Carol" [] OTHER -> "Dave"

SplitRange(studentName, startPage, endPage) ==
  [studentName |-> studentName, startPage |-> startPage, endPage |-> endPage]

\* lines 24-30: for (let i = startPage; i <= endPage; i++) if (i - 1 < count) push(i - 1)
RECURSIVE PageIndicesFrom(_, _, _)
PageIndicesFrom(i, endPage, count) ==
  IF i > endPage THEN <<>>
  ELSE (IF i - 1 < count THEN <<i - 1>> ELSE <<>>)
       \o PageIndicesFrom(i + 1, endPage, count)

\* a selection that pushes the page number instead of the page index
PageIndicesOneBased(range, count) ==
  LET last == IF range.endPage < count THEN range.endPage ELSE count
      n    == IF last >= range.startPage THEN last - range.startPage + 1 ELSE 0
  IN [k \in 1..n |-> range.startPage + k - 1]

\* a selection without the bounds check of line 27
PageIndicesUnclipped(range, count) ==
  LET n == IF range.endPage >= range.startPage
           THEN range.endPage - range.startPage + 1 ELSE 0
  IN [k \in 1..n |-> range.startPage + k - 2]

PageIndices(range, count) == PageIndicesFrom(range.startPage, range.endPage, count)

\* line 34: pdf-lib's copyPages dereferences srcPages[index].node, which throws
\* for an index that is not a page of the source
CopyPagesThrows(pageIndices, count) ==
  \E k \in 1..Len(pageIndices) : pageIndices[k] < 0 \/ pageIndices[k] >= count

SplitIdle == [status |-> "idle", docs |-> <<>>]

\* lines 18-46: the loop over the ranges; a throw rejects the whole promise
RECURSIVE SplitLoop(_, _, _)
SplitLoop(rs, count, results) ==
  IF rs = <<>> THEN [status |-> "resolved", docs |-> results]
  ELSE LET range == Head(rs)
           pageIndices == PageIndices(range, count)
       IN IF Len(pageIndices) > 0
          THEN IF CopyPagesThrows(pageIndices, count)
               THEN [status |-> "rejected", docs |-> <<>>]
               ELSE SplitLoop(Tail(rs), count,
                              Append(results, [studentName |-> range.studentName,
                                               pages |-> pageIndices]))
          ELSE SplitLoop(Tail(rs), count, results)

\* a loop without the emptiness check of line 32: it emits every range
RECURSIVE SplitLoopKeepsEmpty(_, _, _)
SplitLoopKeepsEmpty(rs, count, results) ==
  IF rs = <<>> THEN [status |-> "resolved", docs |-> results]
  ELSE LET range == Head(rs)
           pageIndices == PageIndices(range, count)
       IN IF CopyPagesThrows(pageIndices, count)
          THEN [status |-> "rejected", docs |-> <<>>]
          ELSE SplitLoopKeepsEmpty(Tail(rs), count,
                                   Append(results, [studentName |-> range.studentName,
                                                    pages |-> pageIndices]))

splitPdfByRangesKeepsEmpty(count, rs) == SplitLoopKeepsEmpty(rs, count, <<>>)

\* a loop that puts each new document in front of the earlier ones
RECURSIVE SplitLoopPrepends(_, _, _)
SplitLoopPrepends(rs, count, results) ==
  IF rs = <<>> THEN [status |-> "resolved", docs |-> results]
  ELSE LET range == Head(rs)
           pageIndices == PageIndices(range, count)
       IN IF Len(pageIndices) > 0
          THEN IF CopyPagesThrows(pageIndices, count)
               THEN [status |-> "rejected", docs |-> <<>>]
               ELSE SplitLoopPrepends(Tail(rs), count,
                                      <<[studentName |-> range.studentName,
                                         pages |-> pageIndices]>> \o results)
          ELSE SplitLoopPrepends(Tail(rs), count, results)

splitPdfByRangesPrepends(count, rs) == SplitLoopPrepends(rs, count, <<>>)

splitPdfByRanges(count, rs) == SplitLoop(rs, count, <<>>)

\* ---------------------------------------------------------------- geminiService
GatewayOps ==
  {"generateRubricFromPDF", "parseStudentRoster", "identifyStudentRanges",
   "gradeStudentSubmission"}

\* process.env.API_KEY: not set, set to '', set to a key
EnvKeys ==
  { [defined |-> FALSE, value |-> <<>>],
    [defined |-> TRUE,  value |-> <<>>],
    [defined |-> TRUE,  value |-> <<"k">>] }

\* line 5: const apiKey = process.env.API_KEY || ''
ApiKeyOf(env) == IF env.defined /\ Truthy(env.value) THEN env.value ELSE <<>>

\* an operation without the credential check
KeyNeverMissing(apiKey) == FALSE

\* lines 10, 69, 121, 186: if (!apiKey)
KeyMissing(apiKey) == ~Truthy(apiKey)

\* a response text is a sequence of JSON tokens: the brackets of an array and
\* "x" for a scalar or an object; the empty sequence is '' or undefined
Tokens == {"[", "]", "x"}

Texts == SeqsUpTo(Tokens, MaxTextLen)

NoValue == [kind |-> "none", items |-> <<>>]

JsonScalar == [kind |-> "scalar", items |-> <<>>]

JsonArray(items) == [kind |-> "array", items |-> items]

ParseFailed == [ok |-> FALSE, rest |-> <<>>, value |-> NoValue]

\* JSON.parse: value := "x" | "[" value* "]", and nothing after the value
RECURSIVE ParseValue(_)
RECURSIVE ParseItems(_, _)
ParseValue(toks) ==
  IF toks = <<>> THEN ParseFailed
  ELSE IF Head(toks) = "x"
       THEN [ok |-> TRUE, rest |-> Tail(toks), value |-> JsonScalar]
       ELSE IF Head(toks) = "[" THEN ParseItems(Tail(toks), <<>>)
            ELSE ParseFailed

ParseItems(toks, acc) ==
  IF toks = <<>> THEN ParseFailed
  ELSE IF Head(toks) = "]"
       THEN [ok |-> TRUE, rest |-> Tail(toks), value |-> JsonArray(acc)]
       ELSE LET item == ParseValue(toks)
            IN IF item.ok THEN ParseItems(item.rest, Append(acc, item.value))
               ELSE ParseFailed

JSONParse(text) ==
  LET parsed == ParseValue(text)
  IN IF parsed.ok /\ parsed.rest = <<>> THEN parsed ELSE ParseFailed

\* lines 57-60: data.map((item, index) => ({ id: `q-${Date.now()}-${index}`, ...item }))
WithIds(items) ==
  [i \in 1..Len(items) |-> [kind |-> "item", id |-> i - 1, items |-> <<items[i]>>]]

\* one invocation: the operation, the module's apiKey, the invocations so far,
\* the generateContent calls of this invocation, what the remote side did, and
\* how the promise settled
GatewayLoaded(env) ==
  [pc |-> "idle", op |-> "none", apiKey |-> ApiKeyOf(env), calls |-> 0, requests |-> 0,
   remote |-> "none", text |-> <<>>, outcome |-> "none", error |-> "none",
   value |-> NoValue]

GatewayIdle == GatewayLoaded([defined |-> FALSE, value |-> <<>>])

Resolve(g, value) ==
  [g EXCEPT !.pc = "done", !.outcome = "resolved", !.value = value]

\* a failure swallowed into the empty array
DefaultInsteadOfThrow(g, err) == Resolve(g, JsonArray(<<>>))

\* throw new Error(...) at the top, and catch (error) { console.error; throw error }
Throw(g, err) ==
  [g EXCEPT !.pc = "done", !.outcome = "rejected", !.error = err]

\* the statements after the await: lines 52-60, 103-106, 170-173, 251-254
AfterResponse(g, text) ==
  IF ~Truthy(text) THEN Resolve(g, JsonArray(<<>>))
  ELSE LET data == JSONParse(text)
       IN IF ~data.ok THEN Throw(g, "SyntaxError")
          ELSE IF g.op = "generateRubricFromPDF"
               THEN IF data.value.kind = "array"
                    THEN Resolve(g, JsonArray(WithIds(data.value.items)))
                    ELSE Throw(g, "TypeError")
               ELSE Resolve(g, data.value)

\* ---------------------------------------------------------------- Analytics
\* statistics over every student, graded or not
AllAsGraded(students) == students

\* const gradedStudents = assessment.students.filter(s => s.status === 'GRADED')
GradedStudents(students) == SelectSeq(students, LAMBDA s : s.status = "GRADED")

\* const maxScore = assessment.rubric.reduce((acc, r) => acc + r.maxPoints, 0)
RECURSIVE MaxScore(_)
MaxScore(rubric) ==
  IF rubric = <<>> THEN 0 ELSE Head(rubric).maxPoints + MaxScore(Tail(rubric))

\* a bucketing whose upper edges are exclusive
BandOfExclusive(totalScore, maxScore) ==
  IF maxScore > 0
  THEN IF 100 * totalScore < 20 * maxScore THEN 1
       ELSE IF 100 * totalScore < 40 * maxScore THEN 2
       ELSE IF 100 * totalScore < 60 * maxScore THEN 3
       ELSE IF 100 * totalScore < 80 * maxScore THEN 4
       ELSE 5
  ELSE 1

\* lines 121-126: percentage = maxScore > 0 ? (totalScore / maxScore) * 100 : 0,
\* then the chain of <= 20, <= 40, <= 60, <= 80; the index of the band
BandOf(totalScore, maxScore) ==
  IF maxScore > 0
  THEN IF 100 * totalScore <= 20 * maxScore THEN 1
       ELSE IF 100 * totalScore <= 40 * maxScore THEN 2
       ELSE IF 100 * totalScore <= 60 * maxScore THEN 3
       ELSE IF 100 * totalScore <= 80 * maxScore THEN 4
       ELSE 5
  ELSE 1

\* lines 112-127: gradedStudents.forEach(s => distributionData[band].count++)
RECURSIVE Distribution(_, _, _)
Distribution(graded, maxScore, counts) ==
  IF graded = <<>> THEN counts
  ELSE Distribution(Tail(graded), maxScore,
                    [counts EXCEPT ![BandOf(Head(graded).totalScore, maxScore)] = @ + 1])

\* gradedStudents.reduce((acc, s) => acc + s.totalScore, 0)
RECURSIVE SumTotals(_)
SumTotals(graded) ==
  IF graded = <<>> THEN 0 ELSE Head(graded).totalScore + SumTotals(Tail(graded))

Abs(n) == IF n < 0 THEN -n ELSE n

\* (sum / count).toFixed(1), in tenths: the nearest tenth, a tie going away
\* from zero
ToFixed1(sum, count) ==
  LET magnitude == (20 * Abs(sum) + count) \div (2 * count)
  IN IF sum < 0 THEN -magnitude ELSE magnitude

\* lines 129-131, in tenths
AverageScore(graded) ==
  IF Len(graded) > 0 THEN ToFixed1(SumTotals(graded), Len(graded)) ELSE 0

\* line 174: Math.max(...gradedStudents.map(s => s.totalScore), 0)
RECURSIVE MathMax(_, _)
MathMax(totals, least) ==
  IF totals = <<>> THEN least
  ELSE MathMax(Tail(totals), IF Head(totals) > least THEN Head(totals) ELSE least)

TopScore(graded) ==
  MathMax([i \in 1..Len(graded) |-> graded[i].totalScore], 0)

\* ---- downloadCSV
\* A text is a sequence of pieces: single characters, or words of characters
\* that encodeURI leaves alone.
Quote == "\""

Digit(d) == <<"0", "1", "2", "3", "4", "5", "6", "7", "8", "9">>[d + 1]

RECURSIVE NatToString(_)
NatToString(n) ==
  IF n < 10 THEN <<Digit(n)>> ELSE NatToString(n \div 10) \o <<Digit(n % 10)>>

\* a number inside a template literal
NumberToString(n) == IF n < 0 THEN <<"-">> \o NatToString(-n) ELSE NatToString(n)

\* Array.prototype.join
RECURSIVE Join(_, _)
Join(parts, separator) ==
  IF parts = <<>> THEN <<>>
  ELSE IF Len(parts) = 1 THEN Head(parts)
       ELSE Head(parts) \o separator \o Join(Tail(parts), separator)

Quoted(text) == <<Quote>> \o text \o <<Quote>>

\* .replace(/"/g, '""')
RECURSIVE DoubleQuotes(_)
DoubleQuotes(text) ==
  IF text = <<>> THEN <<>>
  ELSE (IF Head(text) = Quote THEN <<Quote, Quote>> ELSE <<Head(text)>>)
       \o DoubleQuotes(Tail(text))

\* student.grades[r.id]?.score || 0
ScoreOrZero(student, id) ==
  IF id \in DOMAIN student.grades THEN student.grades[id].score ELSE 0

\* student.grades[r.id]?.comment || ''
CommentOrEmpty(student, id) ==
  IF id \in DOMAIN student.grades THEN student.grades[id].comment ELSE <<>>

\* line 91
QuestionHeaders(rubric) ==
  Join([i \in 1..Len(rubric) |->
          Quoted(rubric[i].question \o <<" ", "(">>
                   \o NumberToString(rubric[i].maxPoints) \o <<")">>)],
       <<",">>)

\* line 92
CsvHeader(rubric) ==
  <<"data:text/csv;charset=utf-8,", "Student", " ", "Name", ",", "Total", " ", "Score", ",">>
    \o QuestionHeaders(rubric) \o <<",", "Comments", "\n">>

\* lines 96-99
CsvRow(student, rubric) ==
  LET qScores  == Join([i \in 1..Len(rubric) |->
                          NumberToString(ScoreOrZero(student, rubric[i].id))], <<",">>)
      comments == Join([i \in 1..Len(rubric) |->
                          Quoted(DoubleQuotes(CommentOrEmpty(student, rubric[i].id)))],
                       <<" ", "|", " ">>)
  IN Quoted(student.studentName) \o <<",">> \o NumberToString(student.totalScore)
       \o <<",">> \o qScores \o <<",">> \o Quoted(comments) \o <<"\n">>

\* lines 92-100: the header, then assessment.students.forEach
RECURSIVE CsvRows(_, _)
CsvRows(students, rubric) ==
  IF students = <<>> THEN <<>>
  ELSE CsvRow(Head(students), rubric) \o CsvRows(Tail(students), rubric)

CsvContent(a) == CsvHeader(a.rubric) \o CsvRows(a.students, a.rubric)

\* encodeURI escapes the space, the quote, the line feed, the bar and the
\* percent sign; it leaves letters, digits, the comma and the # alone
EncodeURIPiece(c) ==
  CASE c = " "   -> "%20"
    [] c = Quote -> "%22"
    [] c = "\n"  -> "%0A"
    [] c = "|"   -> "%7C"
    [] c = "%"   -> "%25"
    [] OTHER     -> c

EncodeURI(text) == [i \in 1..Len(text) |-> EncodeURIPiece(text[i])]

\* the percent-decoding of the body of a data: URL
DecodePiece(c) ==
  CASE c = "%20" -> " "
    [] c = "%22" -> Quote
    [] c = "%0A" -> "\n"
    [] c = "%7C" -> "|"
    [] c = "%25" -> "%"
    [] OTHER     -> c

\* the part of a URL before its fragment
RECURSIVE BeforeFragment(_)
BeforeFragment(url) ==
  IF url = <<>> \/ Head(url) = "#" THEN <<>>
  ELSE <<Head(url)>> \o BeforeFragment(Tail(url))

\* lines 102-107: the file the click on the data: link saves; the URL ends
\* at the first #, what follows is its fragment and is not part of the data
DownloadedFile(href) ==
  LET body == Tail(BeforeFragment(href))
  IN [i \in 1..Len(body) |-> DecodePiece(body[i])]

\* ---------------------------------------------------------------- state machine
Op(op, sid, qid, gradeData, results) ==
  [op |-> op, sid |-> sid, qid |-> qid, gradeData |-> gradeData, results |-> results]

\* nothing typed or suggested yet
NoInput == [sid \in StudentIds |-> [qid \in ResultIds |-> {}]]

\* the scores a grading response suggests for student sid, the later result winning
RECURSIVE Suggested(_, _, _)
Suggested(input, sid, results) ==
  IF results = <<>> THEN input
  ELSE Suggested([input EXCEPT ![sid][Head(results).questionId] = {Head(results).score}],
                 sid, Tail(results))

\* a pending completion whose closure holds the initial assessment
PendingWithoutSnapshot(kind, snap, sid) ==
  [kind |-> kind, snap |-> initialAssessment, sid |-> sid, mounted |-> TRUE,
   file |-> 0, ranges |-> <<>>,
   req |-> CHOOSE n \in 1..(Cardinality(inflight) + 1) :
             /\ \A p \in inflight : p.req # n
             /\ \A m \in 1..(n - 1) : \E p \in inflight : p.req = m]

\* a pending completion: the closure's assessment and student id, and whether
\* the component that started it is still mounted (its setters still act)
Pending(kind, snap, sid) ==
  [kind |-> kind, snap |-> snap, sid |-> sid, mounted |-> TRUE,
   file |-> 0, ranges |-> <<>>,
   req |-> CHOOSE n \in 1..(Cardinality(inflight) + 1) :
             /\ \A p \in inflight : p.req # n
             /\ \A m \in 1..(n - 1) : \E p \in inflight : p.req = m]

\* GradingView.tsx 27-31: select the first student when none is selected
AutoSelect(view, sel, students) ==
  IF view = "GRADING" /\ sel = NoStudent /\ Len(students) > 0
  THEN students[1].id ELSE sel

\* onUpdate(a) = setAssessment(a), followed by the effects of the render
OnUpdate(a) ==
  /\ assessment' = a
  /\ selectedStudentId' = AutoSelect(currentView, selectedStudentId, a.students)

\* one more handler run or completion within the bound
Step == steps < budget /\ steps' = steps + 1 /\ UNCHANGED budget

\* const selectedStudent = assessment.students.find(...), GradingView.tsx 24
SelectedIndex == StudentIndex(assessment.students, selectedStudentId)

\* the state of freshly mounted views: nothing busy, no message, the split
\* modal closed at its UPLOAD stage, and no alert so far
UiIsIdle ==
  /\ isGenerating = FALSE
  /\ error = ""
  /\ importError = ""
  /\ showSplitModal = FALSE
  /\ bulkFile = 0
  /\ detectedRanges = <<>>
  /\ splitStage = "UPLOAD"
  /\ alertShown = ""

\* Analytics has not rendered and nothing was exported
AnalyticsIdle ==
  [rendered |-> FALSE, distribution |-> <<0, 0, 0, 0, 0>>, averageScore |-> 0,
   topScore |-> 0, exported |-> FALSE, file |-> <<>>]

\* what a student's fileType can be; "" stands for a student without fileData
FileTypes == {"", "image/png", "application/pdf"}

\* the pages pdf.getPage(1..numPages) returns, GradingView.tsx 48-52; the
\* document of student sid has sid pages
PdfPages(sid) == [i \in 1..sid |-> [doc |-> sid, pageNumber |-> i]]

\* GradingView mounted: useState([]) and useState(false), lines 20-21
ViewerLoaded(fileTypes) ==
  [fileTypes |-> fileTypes, pdfPages |-> <<>>, isPdfLoading |-> FALSE,
   loads |-> {}, started |-> 0]

ViewerIdle == ViewerLoaded(<<>>)

\* a load that takes the place of the loads in flight
StartLoadCancelling(v, sid) ==
  [v EXCEPT !.isPdfLoading = TRUE, !.started = @ + 1,
            !.loads = {[sid |-> sid, n |-> v.started + 1]}]

\* lines 41-46: setIsPdfLoading(true) and getDocument(...).promise is awaited;
\* the effect returns no cleanup, so earlier loads stay in flight
StartLoad(v, sid) ==
  [v EXCEPT !.isPdfLoading = TRUE, !.started = @ + 1,
            !.loads = @ \cup {[sid |-> sid, n |-> v.started + 1]}]

\* the loadPdf effect for the selected student, lines 34-62
loadPdf(v, sid) ==
  IF \/ sid = NoStudent
     \/ v.fileTypes[sid] = ""
     \/ v.fileTypes[sid] = "image/png"
  THEN [v EXCEPT !.pdfPages = <<>>]
  ELSE StartLoad(v, sid)

Init ==
  /\ assessment = initialAssessment
  /\ currentView = "SETUP"
  /\ selectedStudentId = NoStudent
  /\ isAutoGrading = FALSE
  /\ isProcessing = FALSE
  /\ inflight = {}
  /\ nextQuestion = 0
  /\ nextStudent = 0
  /\ steps = 0
  /\ budget = MaxSteps
  /\ lastOp = Op("init", 0, 0, NoGradeData, <<>>)
  /\ lastInput = NoInput
  /\ pageCount = 0
  /\ ranges = <<>>
  /\ splitResult = SplitIdle
  /\ UiIsIdle
  /\ gateway = GatewayIdle
  /\ analytics = AnalyticsIdle
  /\ viewer = ViewerIdle
  /\ analysedFiles = <<>>

\* App.tsx 90: a navigation tab; the view left is unmounted and its state lost
SetCurrentView(v) ==
  /\ v # currentView
  /\ currentView' = v
  /\ selectedStudentId' = AutoSelect(v, NoStudent, assessment.students)
  /\ isAutoGrading' = FALSE
  /\ isProcessing' = FALSE
  /\ inflight' = {[p EXCEPT !.mounted = FALSE] : p \in inflight}
  /\ isGenerating' = FALSE
  /\ error' = ""
  /\ importError' = ""
  /\ showSplitModal' = FALSE
  /\ bulkFile' = 0
  /\ detectedRanges' = <<>>
  /\ splitStage' = "UPLOAD"
  /\ lastOp' = Op("setCurrentView", 0, 0, NoGradeData, <<>>)
  /\ UNCHANGED <<lastInput, steps, budget, assessment, nextQuestion, nextStudent,
                 alertShown, splitVars, serviceVars>>

\* ---- RubricSetup
addQuestion ==
  /\ Step
  /\ currentView = "SETUP"
  /\ nextQuestion < MaxItems
  /\ nextQuestion' = nextQuestion + 1
  /\ OnUpdate([assessment EXCEPT !.rubric =
                 Append(@, RubricItem(nextQuestion + 1, 1, "FRQ", <<>>))])
  /\ lastOp' = Op("addQuestion", 0, nextQuestion + 1, NoGradeData, <<>>)
  /\ UNCHANGED <<lastInput, currentView, isAutoGrading, isProcessing, inflight, nextStudent,
                 splitVars, uiVars, serviceVars>>

\* rubric.map(q => q.id === id ? { ...q, [field]: value } : q)
UpdatedRubric(rubric, id, field, value) ==
  [i \in 1..Len(rubric) |->
     IF rubric[i].id = id
     THEN CASE field = "type"          -> [rubric[i] EXCEPT !.type = value]
            [] field = "maxPoints"     -> [rubric[i] EXCEPT !.maxPoints = value]
            [] field = "correctAnswer" -> [rubric[i] EXCEPT !.correctAnswer = value]
     ELSE rubric[i]]

updateQuestion(id, field, value) ==
  /\ Step
  /\ currentView = "SETUP"
  /\ ItemIndex(assessment.rubric, id) # 0
  /\ OnUpdate([assessment EXCEPT !.rubric = UpdatedRubric(@, id, field, value)])
  /\ lastOp' = Op("updateQuestion", 0, id, NoGradeData, <<>>)
  /\ UNCHANGED <<lastInput, currentView, isAutoGrading, isProcessing, inflight, nextQuestion,
                 nextStudent, splitVars, uiVars, serviceVars>>

\* the three inputs of a rubric card that a decision reads (RubricSetup.tsx 133, 145, 156)
UpdateQuestionStep ==
  \E i \in 1..Len(assessment.rubric) :
    LET item == assessment.rubric[i] IN
    \/ \E t \in QuestionTypes : updateQuestion(item.id, "type", t)
    \/ \E n \in Points : updateQuestion(item.id, "maxPoints", n)
    \/ /\ item.type = "MCQ"
       /\ \E k \in RubricKeyInputs :
            updateQuestion(item.id, "correctAnswer", ToUpperCase(k))

removeQuestion(id) ==
  /\ Step
  /\ currentView = "SETUP"
  /\ ItemIndex(assessment.rubric, id) # 0
  /\ OnUpdate([assessment EXCEPT !.rubric = SelectSeq(@, LAMBDA q : q.id # id)])
  /\ lastOp' = Op("removeQuestion", 0, id, NoGradeData, <<>>)
  /\ UNCHANGED <<lastInput, currentView, isAutoGrading, isProcessing, inflight, nextQuestion,
                 nextStudent, splitVars, uiVars, serviceVars>>

\* ---- StudentSetup
\* a student as the importers create it: no grades, PENDING, total 0
NewStudent(id, hasFile) == StudentSubmission(id, hasFile, EmptyGrades, "PENDING", 0)

\* the setters of a component act only while it is mounted
SetIsProcessing(p, value) == IF p.mounted THEN value ELSE isProcessing

SetImportError(p, value) == IF p.mounted THEN value ELSE importError

\* the StudentSetup state that only the split modal writes
modalVars == <<showSplitModal, bulkFile, detectedRanges, splitStage>>

\* handleRosterImport, lines 60-66 and 92: the read and the request are started
handleRosterImport ==
  /\ Step
  /\ currentView = "STUDENTS"
  /\ ~isProcessing
  /\ Cardinality(inflight) < MaxInflight
  /\ isProcessing' = TRUE
  /\ importError' = ""
  /\ inflight' = inflight \cup {Pending("roster", assessment, NoStudent)}
  /\ lastOp' = Op("handleRosterImport", 0, 0, NoGradeData, <<>>)
  /\ UNCHANGED <<lastInput, assessment, currentView, selectedStudentId, isAutoGrading,
                 nextQuestion, nextStudent, isGenerating, error, modalVars, alertShown,
                 splitVars, serviceVars>>

\* names.map((name, idx) => ({ ... })), lines 74-83
RosterStudents(first, n) == [i \in 1..n |-> NewStudent(first + i, FALSE)]

\* handleRosterImport, lines 68-90: parseStudentRoster returned n names
RosterImported(p, n) ==
  /\ Step
  /\ p \in inflight /\ p.kind = "roster"
  /\ nextStudent + n <= MaxStudents
  /\ inflight' = inflight \ {p}
  /\ isProcessing' = SetIsProcessing(p, FALSE)
  /\ IF n = 0
     THEN /\ importError' = SetImportError(p, "No names found in the document.")
          /\ UNCHANGED <<assessment, selectedStudentId, nextStudent>>
     ELSE /\ OnUpdate([p.snap EXCEPT !.students = @ \o RosterStudents(nextStudent, n)])
          /\ nextStudent' = nextStudent + n
          /\ UNCHANGED importError
  /\ lastOp' = Op("rosterImported", 0, 0, NoGradeData, <<>>)
  /\ UNCHANGED <<lastInput, currentView, isAutoGrading, nextQuestion, isGenerating, error,
                 modalVars, alertShown, splitVars, serviceVars>>

\* handleRosterImport, lines 86-90: parseStudentRoster threw
RosterFailed(p) ==
  /\ Step
  /\ p \in inflight /\ p.kind = "roster"
  /\ inflight' = inflight \ {p}
  /\ isProcessing' = SetIsProcessing(p, FALSE)
  /\ importError' = SetImportError(p, "Failed to parse roster. Please check the file format.")
  /\ lastOp' = Op("rosterFailed", 0, 0, NoGradeData, <<>>)
  /\ UNCHANGED <<lastInput, assessment, currentView, selectedStudentId, isAutoGrading,
                 nextQuestion, nextStudent, isGenerating, error, modalVars, alertShown,
                 splitVars, serviceVars>>

\* handleStudentSubmissionUpload, lines 26-27 and 57: the read is started;
\* studentId is NoStudent for the Single Upload card
handleStudentSubmissionUpload(studentId) ==
  /\ Step
  /\ currentView = "STUDENTS"
  /\ studentId # NoStudent => StudentIndex(assessment.students, studentId) # 0
  /\ Cardinality(inflight) < MaxInflight
  /\ inflight' = inflight \cup {Pending("upload", assessment, studentId)}
  /\ lastOp' = Op("handleStudentSubmissionUpload", studentId, 0, NoGradeData, <<>>)
  /\ UNCHANGED <<lastInput, assessment, currentView, selectedStudentId, isAutoGrading,
                 isProcessing, nextQuestion, nextStudent, splitVars, uiVars, serviceVars>>

\* lines 33-40: students.map(s => s.id === studentId ? { ...s, fileData } : s)
AttachFile(students, studentId) ==
  [i \in 1..Len(students) |->
     IF students[i].id = studentId
     THEN [students[i] EXCEPT !.hasFile = TRUE] ELSE students[i]]

\* handleStudentSubmissionUpload, lines 28-56: reader.onload
SubmissionLoaded(p) ==
  /\ Step
  /\ p \in inflight /\ p.kind = "upload"
  /\ inflight' = inflight \ {p}
  /\ IF p.sid # NoStudent
     THEN /\ OnUpdate([p.snap EXCEPT !.students = AttachFile(@, p.sid)])
          /\ UNCHANGED nextStudent
     ELSE /\ nextStudent < MaxStudents
          /\ OnUpdate([p.snap EXCEPT !.students =
                         Append(@, NewStudent(nextStudent + 1, TRUE))])
          /\ nextStudent' = nextStudent + 1
  /\ lastOp' = Op("submissionLoaded", p.sid, 0, NoGradeData, <<>>)
  /\ UNCHANGED <<lastInput, currentView, isAutoGrading, isProcessing, nextQuestion, splitVars, uiVars, serviceVars>>

\* removeStudent, lines 155-157
removeStudent(id) ==
  /\ Step
  /\ currentView = "STUDENTS"
  /\ StudentIndex(assessment.students, id) # 0
  /\ OnUpdate([assessment EXCEPT !.students = SelectSeq(@, LAMBDA s : s.id # id)])
  /\ lastOp' = Op("removeStudent", id, 0, NoGradeData, <<>>)
  /\ UNCHANGED <<lastInput, currentView, isAutoGrading, isProcessing, inflight, nextQuestion,
                 nextStudent, splitVars, uiVars, serviceVars>>

\* the Clear All button, line 235
clearAll ==
  /\ Step
  /\ currentView = "STUDENTS"
  /\ Len(assessment.students) > 0
  /\ OnUpdate([assessment EXCEPT !.students = <<>>])
  /\ lastOp' = Op("clearAll", 0, 0, NoGradeData, <<>>)
  /\ UNCHANGED <<lastInput, currentView, isAutoGrading, isProcessing, inflight, nextQuestion,
                 nextStudent, splitVars, uiVars, serviceVars>>

\* ---- GradingView
\* the student buttons of the sidebar, line 245
setSelectedStudentId(id) ==
  /\ currentView = "GRADING"
  /\ StudentIndex(assessment.students, id) # 0
  /\ selectedStudentId' = id
  /\ lastOp' = Op("setSelectedStudentId", id, 0, NoGradeData, <<>>)
  /\ UNCHANGED <<lastInput, steps, budget, assessment, currentView, isAutoGrading, isProcessing, inflight,
                 nextQuestion, nextStudent, splitVars, uiVars, serviceVars>>

\* handleGradeChange, lines 84-120; the grading panel is rendered only for a
\* selected student (line 268)
handleGradeChange(questionId, gradeData) ==
  /\ Step
  /\ currentView = "GRADING"
  /\ SelectedIndex # 0
  /\ LET selectedStudent == assessment.students[SelectedIndex]
         updatedStudent  == GradeChangeStudent(selectedStudent, assessment.rubric,
                                               questionId, gradeData)
     IN OnUpdate([assessment EXCEPT !.students =
                    ReplaceStudent(@, selectedStudentId, updatedStudent)])
  /\ lastOp' = Op("handleGradeChange", selectedStudentId, questionId, gradeData, <<>>)
  /\ lastInput' = IF "score" \in gradeData.fields
                  THEN [lastInput EXCEPT ![selectedStudentId][questionId] = {gradeData.score}]
                  ELSE lastInput
  /\ UNCHANGED <<currentView, isAutoGrading, isProcessing, inflight, nextQuestion,
                 nextStudent, splitVars, uiVars, serviceVars>>

\* the call sites of handleGradeChange: the Student letter of an MCQ item (361),
\* the score of any item (386), the comment of a free-response item (401, 410);
\* and, for an MCQ item with a key, an edit that carries a letter and a score
HandleGradeChangeStep ==
  \E i \in 1..Len(assessment.rubric) :
    LET item == assessment.rubric[i] IN
    \/ /\ item.type = "MCQ"
       /\ \E a \in AnswerInputs :
            handleGradeChange(item.id, GradeData({"studentAnswer"}, 0, a))
    \/ \E n \in Points : handleGradeChange(item.id, GradeData({"score"}, n, <<>>))
    \/ /\ item.type # "MCQ"
       /\ handleGradeChange(item.id, GradeData({"comment"}, 0, <<>>))
    \/ /\ item.type = "MCQ" /\ Truthy(item.correctAnswer)
       /\ \E a \in AnswerInputs, n \in Points :
            handleGradeChange(item.id, GradeData({"studentAnswer", "score"}, n, a))

\* handleKeyChange, lines 122-160
handleKeyChange(questionId, newKey) ==
  /\ Step
  /\ currentView = "GRADING"
  /\ SelectedIndex # 0
  /\ LET updatedRubric == KeyChangeRubric(assessment.rubric, questionId, newKey)
     IN OnUpdate([assessment EXCEPT
                    !.rubric = updatedRubric,
                    !.students = KeyChangeStudents(@, SelectedIndex, updatedRubric,
                                                   questionId, newKey)])
  /\ lastOp' = Op("handleKeyChange", selectedStudentId, questionId, NoGradeData, <<>>)
  /\ UNCHANGED <<lastInput, currentView, isAutoGrading, isProcessing, inflight, nextQuestion,
                 nextStudent, splitVars, uiVars, serviceVars>>

\* the Key input is rendered for MCQ items only (lines 342-352)
HandleKeyChangeStep ==
  \E i \in 1..Len(assessment.rubric), k \in KeyInputs :
    /\ assessment.rubric[i].type = "MCQ"
    /\ handleKeyChange(assessment.rubric[i].id, k)

\* runAiGrading, lines 162-171: the request is sent; the button is disabled
\* while isAutoGrading or without a file (line 314)
runAiGrading ==
  /\ Step
  /\ currentView = "GRADING"
  /\ SelectedIndex # 0
  /\ assessment.students[SelectedIndex].hasFile
  /\ ~isAutoGrading
  /\ Cardinality(inflight) < MaxInflight
  /\ isAutoGrading' = TRUE
  /\ inflight' = inflight \cup {Pending("grade", assessment, selectedStudentId)}
  /\ lastOp' = Op("runAiGrading", selectedStudentId, 0, NoGradeData, <<>>)
  /\ UNCHANGED <<lastInput, assessment, currentView, selectedStudentId, isProcessing,
                 nextQuestion, nextStudent, splitVars, uiVars, serviceVars>>

\* runAiGrading, lines 173-206 and 211-213: gradeStudentSubmission returned results
AiGraded(p, results) ==
  /\ Step
  /\ p \in inflight /\ p.kind = "grade"
  /\ inflight' = inflight \ {p}
  /\ LET selectedStudent == p.snap.students[StudentIndex(p.snap.students, p.sid)]
         updatedStudent  == AiGradedStudent(selectedStudent, p.snap.rubric, results)
     IN OnUpdate([p.snap EXCEPT !.students = ReplaceStudent(@, p.sid, updatedStudent)])
  /\ isAutoGrading' = IF p.mounted THEN FALSE ELSE isAutoGrading
  /\ lastOp' = Op("aiGraded", p.sid, 0, NoGradeData, results)
  /\ lastInput' = Suggested(lastInput, p.sid, results)
  /\ UNCHANGED <<currentView, isProcessing, nextQuestion, nextStudent, splitVars, uiVars, serviceVars>>

\* runAiGrading, lines 208-213: gradeStudentSubmission threw
AiGradingFailed(p) ==
  /\ Step
  /\ p \in inflight /\ p.kind = "grade"
  /\ inflight' = inflight \ {p}
  /\ isAutoGrading' = IF p.mounted THEN FALSE ELSE isAutoGrading
  /\ alertShown' = "AI Grading failed. Please check your API key."
  /\ lastOp' = Op("aiGradingFailed", p.sid, 0, NoGradeData, <<>>)
  /\ UNCHANGED <<lastInput, assessment, currentView, selectedStudentId, isProcessing,
                 nextQuestion, nextStudent, isGenerating, error, importError, modalVars,
                 splitVars, serviceVars>>

\* ---- RubricSetup, the answer-key import
\* what generateRubricFromPDF may hand back: items with fresh ids, the key as
\* the response spelled it
GeneratedRubrics(first) ==
  {<<>>, <<RubricItem(first + 1, MaxPoints, "MCQ", <<"b">>)>>}

\* handleFileUpload, RubricSetup.tsx 18-20 and 35: the read and the request are
\* started; the upload control is replaced by a spinner while isGenerating (90)
handleFileUpload ==
  /\ Step
  /\ currentView = "SETUP"
  /\ ~isGenerating
  /\ Cardinality(inflight) < MaxInflight
  /\ isGenerating' = TRUE
  /\ error' = ""
  /\ inflight' = inflight \cup {Pending("rubric", assessment, NoStudent)}
  /\ lastOp' = Op("handleFileUpload", 0, 0, NoGradeData, <<>>)
  /\ UNCHANGED <<lastInput, assessment, currentView, selectedStudentId, isAutoGrading,
                 isProcessing, nextQuestion, nextStudent, importError, modalVars,
                 alertShown, splitVars, serviceVars>>

\* handleFileUpload, lines 25-28 and 31-33: generateRubricFromPDF returned rubric
RubricGenerated(p, rubric) ==
  /\ Step
  /\ p \in inflight /\ p.kind = "rubric"
  /\ nextQuestion + Len(rubric) <= MaxItems
  /\ inflight' = inflight \ {p}
  /\ OnUpdate([p.snap EXCEPT !.rubric = rubric])
  /\ nextQuestion' = nextQuestion + Len(rubric)
  /\ isGenerating' = IF p.mounted THEN FALSE ELSE isGenerating
  /\ lastOp' = Op("rubricGenerated", 0, 0, NoGradeData, <<>>)
  /\ UNCHANGED <<lastInput, currentView, isAutoGrading, isProcessing, nextStudent, error,
                 importError, modalVars, alertShown, splitVars, serviceVars>>

\* handleFileUpload, lines 29-33: generateRubricFromPDF threw
RubricFailed(p) ==
  /\ Step
  /\ p \in inflight /\ p.kind = "rubric"
  /\ inflight' = inflight \ {p}
  /\ error' = IF p.mounted
              THEN "Failed to generate rubric from file. Please try again or create manually."
              ELSE error
  /\ isGenerating' = IF p.mounted THEN FALSE ELSE isGenerating
  /\ lastOp' = Op("rubricFailed", 0, 0, NoGradeData, <<>>)
  /\ UNCHANGED <<lastInput, assessment, currentView, selectedStudentId, isAutoGrading,
                 isProcessing, nextQuestion, nextStudent, importError, modalVars,
                 alertShown, splitVars, serviceVars>>

\* ---- the file reads
\* a FileReader started by handleFileUpload, handleStudentSubmissionUpload,
\* handleRosterImport or startBulkSplit ends with its error event: no handler
\* assigns reader.onerror, so onload never runs and nothing else does
ReadKinds == {"rubric", "upload", "roster", "analysis"}

ReadFailed(p) ==
  /\ Step
  /\ p \in inflight /\ p.kind \in ReadKinds
  /\ inflight' = inflight \ {p}
  /\ lastOp' = Op("readFailed", p.sid, 0, NoGradeData, <<>>)
  /\ UNCHANGED <<lastInput, assessment, currentView, selectedStudentId, isAutoGrading,
                 isProcessing, nextQuestion, nextStudent, uiVars, splitVars, serviceVars>>

\* ---- StudentSetup, the bulk split modal
\* the page counts of the bulk files offered
BulkFiles == 1..MaxBulkPages

\* what identifyStudentRanges may hand back: nothing, one student, two students
\* with the second past a short file, a range that starts before page one
DetectedRangeLists ==
  { <<>>,
    <<SplitRange(StudentName(1), 1, 1)>>,
    <<SplitRange(StudentName(1), 1, 1), SplitRange(StudentName(2), 2, 2)>>,
    <<SplitRange(StudentName(1), 0, 1)>> }

\* what the inputs of a range row are set to (lines 357-385)
RangeFields == {"studentName", "startPage", "endPage"}

RangeInputs(field) == IF field = "studentName" THEN {StudentName(1)} ELSE {0, 2}

\* the Split & Import button (204), the X (310) and Close (416) buttons
setShowSplitModal(value) ==
  /\ currentView = "STUDENTS"
  /\ showSplitModal # value
  /\ showSplitModal' = value
  /\ lastOp' = Op("setShowSplitModal", 0, 0, NoGradeData, <<>>)
  /\ UNCHANGED <<lastInput, steps, budget, assessment, currentView, selectedStudentId,
                 isAutoGrading, isProcessing, inflight, nextQuestion, nextStudent,
                 isGenerating, error, importError, bulkFile, detectedRanges, splitStage,
                 alertShown, splitVars, serviceVars>>

\* a pending analysis: the closure's assessment and file
PendingAnalysis(snap, file) ==
  [Pending("analysis", snap, NoStudent) EXCEPT !.file = file]

\* startBulkSplit, lines 101-105 and 117: the read and the request are started
startBulkSplit(file) ==
  /\ Step
  /\ currentView = "STUDENTS" /\ showSplitModal /\ splitStage = "UPLOAD"
  /\ Cardinality(inflight) < MaxInflight
  /\ bulkFile' = file
  /\ splitStage' = "ANALYZING"
  /\ inflight' = inflight \cup {PendingAnalysis(assessment, file)}
  /\ lastOp' = Op("startBulkSplit", 0, 0, NoGradeData, <<>>)
  /\ UNCHANGED <<lastInput, assessment, currentView, selectedStudentId, isAutoGrading,
                 isProcessing, nextQuestion, nextStudent, isGenerating, error, importError,
                 showSplitModal, detectedRanges, alertShown, splitVars, serviceVars>>

\* startBulkSplit, lines 106-111: identifyStudentRanges returned rs
RangesDetected(p, rs) ==
  /\ Step
  /\ p \in inflight /\ p.kind = "analysis"
  /\ inflight' = inflight \ {p}
  /\ detectedRanges' = IF p.mounted THEN rs ELSE detectedRanges
  /\ splitStage' = IF p.mounted THEN "CONFIRM" ELSE splitStage
  /\ analysedFiles' = IF p.mounted THEN Append(analysedFiles, p.file) ELSE analysedFiles
  /\ lastOp' = Op("rangesDetected", 0, 0, NoGradeData, <<>>)
  /\ UNCHANGED <<lastInput, assessment, currentView, selectedStudentId, isAutoGrading,
                 isProcessing, nextQuestion, nextStudent, isGenerating, error, importError,
                 showSplitModal, bulkFile, alertShown, splitVars, gateway, analytics,
                 viewer>>

\* a failed analysis that shows the CONFIRM stage
AnalysisFailedToConfirm(p) ==
  /\ Step
  /\ p \in inflight /\ p.kind = "analysis"
  /\ inflight' = inflight \ {p}
  /\ importError' = SetImportError(p, "Failed to analyze PDF structure.")
  /\ splitStage' = IF p.mounted THEN "CONFIRM" ELSE splitStage
  /\ lastOp' = Op("analysisFailed", 0, 0, NoGradeData, <<>>)
  /\ UNCHANGED <<lastInput, assessment, currentView, selectedStudentId, isAutoGrading,
                 isProcessing, nextQuestion, nextStudent, isGenerating, error,
                 showSplitModal, bulkFile, detectedRanges, alertShown, splitVars,
                 serviceVars>>

\* startBulkSplit, lines 112-115: identifyStudentRanges threw
AnalysisFailed(p) ==
  /\ Step
  /\ p \in inflight /\ p.kind = "analysis"
  /\ inflight' = inflight \ {p}
  /\ importError' = SetImportError(p, "Failed to analyze PDF structure.")
  /\ splitStage' = IF p.mounted THEN "UPLOAD" ELSE splitStage
  /\ lastOp' = Op("analysisFailed", 0, 0, NoGradeData, <<>>)
  /\ UNCHANGED <<lastInput, assessment, currentView, selectedStudentId, isAutoGrading,
                 isProcessing, nextQuestion, nextStudent, isGenerating, error,
                 showSplitModal, bulkFile, detectedRanges, alertShown, splitVars,
                 serviceVars>>

\* newRanges[idx][field] = value; setDetectedRanges(newRanges), lines 357-385
EditedRanges(rs, idx, field, value) ==
  [i \in 1..Len(rs) |->
     IF i = idx
     THEN CASE field = "studentName" -> [rs[i] EXCEPT !.studentName = value]
            [] field = "startPage"   -> [rs[i] EXCEPT !.startPage = value]
            [] field = "endPage"     -> [rs[i] EXCEPT !.endPage = value]
     ELSE rs[i]]

setDetectedRanges(idx, field, value) ==
  /\ Step
  /\ currentView = "STUDENTS" /\ showSplitModal /\ splitStage = "CONFIRM"
  /\ idx \in 1..Len(detectedRanges)
  /\ detectedRanges' = EditedRanges(detectedRanges, idx, field, value)
  /\ detectedRanges' # detectedRanges
  /\ lastOp' = Op("setDetectedRanges", 0, 0, NoGradeData, <<>>)
  /\ UNCHANGED <<lastInput, assessment, currentView, selectedStudentId, isAutoGrading,
                 isProcessing, inflight, nextQuestion, nextStudent, isGenerating, error,
                 importError, showSplitModal, bulkFile, splitStage, alertShown, splitVars,
                 serviceVars>>

\* the Cancel button of the CONFIRM stage, line 410
cancelSplit ==
  /\ Step
  /\ currentView = "STUDENTS" /\ showSplitModal /\ splitStage = "CONFIRM"
  /\ splitStage' = "UPLOAD"
  /\ lastOp' = Op("cancelSplit", 0, 0, NoGradeData, <<>>)
  /\ UNCHANGED <<lastInput, assessment, currentView, selectedStudentId, isAutoGrading,
                 isProcessing, inflight, nextQuestion, nextStudent, isGenerating, error,
                 importError, showSplitModal, bulkFile, detectedRanges, alertShown,
                 splitVars, serviceVars>>

\* a pending split: the closure's assessment, bulkFile and detectedRanges
PendingSplit(snap, file, rs) ==
  [Pending("split", snap, NoStudent) EXCEPT !.file = file, !.ranges = rs]

\* a split that goes ahead whatever the file and the ranges are
AlwaysSomethingToSplit(file, rs) == FALSE

\* line 121: !bulkFile || detectedRanges.length === 0
NothingToSplit(file, rs) == file = 0 \/ Len(rs) = 0

\* finalizeSplit, lines 120-122: the Confirm & Split button (411); the early
\* return of line 121 leaves everything as it is
finalizeSplit ==
  /\ Step
  /\ currentView = "STUDENTS" /\ showSplitModal /\ splitStage = "CONFIRM"
  /\ IF NothingToSplit(bulkFile, detectedRanges)
     THEN UNCHANGED <<splitStage, inflight>>
     ELSE /\ Cardinality(inflight) < MaxInflight
          /\ splitStage' = "PROCESSING"
          /\ inflight' = inflight \cup {PendingSplit(assessment, bulkFile, detectedRanges)}
  /\ lastOp' = Op("finalizeSplit", 0, 0, NoGradeData, <<>>)
  /\ UNCHANGED <<lastInput, assessment, currentView, selectedStudentId, isAutoGrading,
                 isProcessing, nextQuestion, nextStudent, isGenerating, error, importError,
                 showSplitModal, bulkFile, detectedRanges, alertShown, splitVars,
                 serviceVars>>

\* lines 130-139: the student made of one document of the split, with the
\* fields of the other students and the name and media type given here
SplitStudent(id, doc) ==
  [id |-> id, studentName |-> doc.studentName, fileType |-> "application/pdf",
   hasFile |-> TRUE, grades |-> EmptyGrades, status |-> "PENDING", totalScore |-> 0]

\* lines 126-141: one new student with a file per document of the split
SplitStudents(first, docs) == [i \in 1..Len(docs) |-> SplitStudent(first + i, docs[i])]

\* finalizeSplit, lines 124-147: splitPdfByRanges resolved and every document
\* was encoded
SplitSucceeded(p) ==
  /\ Step
  /\ p \in inflight /\ p.kind = "split"
  /\ LET results == splitPdfByRanges(p.file, p.ranges) IN
       /\ results.status = "resolved"
       /\ nextStudent + Len(results.docs) <= MaxStudents
       /\ OnUpdate([p.snap EXCEPT !.students = @ \o SplitStudents(nextStudent, results.docs)])
       /\ nextStudent' = nextStudent + Len(results.docs)
  /\ inflight' = inflight \ {p}
  /\ showSplitModal' = IF p.mounted THEN FALSE ELSE showSplitModal
  /\ bulkFile' = IF p.mounted THEN 0 ELSE bulkFile
  /\ detectedRanges' = IF p.mounted THEN <<>> ELSE detectedRanges
  /\ splitStage' = IF p.mounted THEN "UPLOAD" ELSE splitStage
  /\ lastOp' = Op("splitSucceeded", 0, 0, NoGradeData, <<>>)
  /\ UNCHANGED <<lastInput, currentView, isAutoGrading, isProcessing, nextQuestion,
                 isGenerating, error, importError, alertShown, splitVars, serviceVars>>

\* finalizeSplit, lines 148-152: the file did not load, splitPdfByRanges
\* rejected, or blobToBase64 rejected for some document
SplitFailed(p) ==
  /\ Step
  /\ p \in inflight /\ p.kind = "split"
  /\ inflight' = inflight \ {p}
  /\ importError' = SetImportError(p, "Failed to split PDF file.")
  /\ splitStage' = IF p.mounted THEN "CONFIRM" ELSE splitStage
  /\ lastOp' = Op("splitFailed", 0, 0, NoGradeData, <<>>)
  /\ UNCHANGED <<lastInput, assessment, currentView, selectedStudentId, isAutoGrading,
                 isProcessing, nextQuestion, nextStudent, isGenerating, error,
                 showSplitModal, bulkFile, detectedRanges, alertShown, splitVars,
                 serviceVars>>

\* ---------------------------------------------------------------- specification
Next ==
  \/ \E v \in Views : SetCurrentView(v)
  \/ addQuestion
  \/ UpdateQuestionStep
  \/ \E id \in ItemIds : removeQuestion(id)
  \/ handleRosterImport
  \/ \E p \in inflight, n \in 0..MaxStudents : RosterImported(p, n)
  \/ \E p \in inflight : RosterFailed(p)
  \/ \E id \in {NoStudent} \cup StudentIds : handleStudentSubmissionUpload(id)
  \/ \E p \in inflight : SubmissionLoaded(p)
  \/ \E id \in StudentIds : removeStudent(id)
  \/ clearAll
  \/ \E id \in StudentIds : setSelectedStudentId(id)
  \/ HandleGradeChangeStep
  \/ HandleKeyChangeStep
  \/ runAiGrading
  \/ \E p \in inflight, results \in AiResponses : AiGraded(p, results)
  \/ \E p \in inflight : AiGradingFailed(p)
  \/ handleFileUpload
  \/ \E p \in inflight : \E rubric \in GeneratedRubrics(nextQuestion) :
       RubricGenerated(p, rubric)
  \/ \E p \in inflight : RubricFailed(p)
  \/ \E p \in inflight : ReadFailed(p)
  \/ \E value \in BOOLEAN : setShowSplitModal(value)
  \/ \E file \in BulkFiles : startBulkSplit(file)
  \/ \E p \in inflight, rs \in DetectedRangeLists : RangesDetected(p, rs)
  \/ \E p \in inflight : AnalysisFailed(p)
  \/ \E idx \in 1..MaxRanges, field \in RangeFields :
       \E value \in RangeInputs(field) : setDetectedRanges(idx, field, value)
  \/ cancelSplit
  \/ finalizeSplit
  \/ \E p \in inflight : SplitSucceeded(p)
  \/ \E p \in inflight : SplitFailed(p)

Spec == Init /\ [][Next]_vars

\* ---------------------------------------------------------------- a prepared assessment
\* The rubric cards and the uploads have been filled in and grading starts:
\* the odd items are as addQuestion creates them, the even items are
\* multiple-choice items worth MaxPoints with the key B; every student has a
\* file and no grade.  The other rubrics are reached by the rubric edits.
PreparedItem(id) ==
  IF id % 2 = 1 THEN RubricItem(id, 1, "FRQ", <<>>)
  ELSE RubricItem(id, MaxPoints, "MCQ", <<"B">>)

PreparedRubrics == {[i \in 1..n |-> PreparedItem(i)] : n \in 1..MaxItems}

PreparedStudents == [i \in 1..MaxPrepared |-> NewStudent(i, TRUE)]

PreparedInit(gradingBudget) ==
  /\ \E r \in PreparedRubrics :
       /\ assessment = [rubric |-> r, students |-> PreparedStudents]
       /\ nextQuestion = Len(r)
  /\ currentView = "GRADING"
  /\ selectedStudentId = AutoSelect("GRADING", NoStudent, PreparedStudents)
  /\ isAutoGrading = FALSE
  /\ isProcessing = FALSE
  /\ inflight = {}
  /\ nextStudent = MaxPrepared
  /\ steps = 0
  /\ budget = gradingBudget
  /\ lastOp = Op("init", 0, 0, NoGradeData, <<>>)
  /\ lastInput = NoInput
  /\ pageCount = 0
  /\ ranges = <<>>
  /\ splitResult = SplitIdle
  /\ UiIsIdle
  /\ gateway = GatewayIdle
  /\ analytics = AnalyticsIdle
  /\ viewer = ViewerIdle
  /\ analysedFiles = <<>>

InitGrading == PreparedInit(MaxGradingSteps)

\* a grading session: the roster stays as prepared
NextGrading ==
  \/ \E v \in Views : SetCurrentView(v)
  \/ addQuestion
  \/ UpdateQuestionStep
  \/ \E id \in ItemIds : removeQuestion(id)
  \/ \E id \in StudentIds : setSelectedStudentId(id)
  \/ HandleGradeChangeStep
  \/ HandleKeyChangeStep
  \/ runAiGrading
  \/ \E p \in inflight, results \in AiResponses : AiGraded(p, results)
  \/ \E p \in inflight : AiGradingFailed(p)

SpecGrading == InitGrading /\ [][NextGrading]_vars

\* a session that may do anything, from the prepared assessment with the
\* split modal open on the ranges detected in a one-page bulk file
InitRace ==
  /\ \E r \in PreparedRubrics :
       /\ assessment = [rubric |-> r, students |-> PreparedStudents]
       /\ nextQuestion = Len(r)
  /\ currentView = "STUDENTS"
  /\ selectedStudentId = NoStudent
  /\ isAutoGrading = FALSE
  /\ isProcessing = FALSE
  /\ inflight = {}
  /\ nextStudent = MaxPrepared
  /\ steps = 0
  /\ budget = MaxRaceSteps
  /\ lastOp = Op("init", 0, 0, NoGradeData, <<>>)
  /\ lastInput = NoInput
  /\ pageCount = 0
  /\ ranges = <<>>
  /\ splitResult = SplitIdle
  /\ isGenerating = FALSE
  /\ error = ""
  /\ importError = ""
  /\ showSplitModal = TRUE
  /\ bulkFile = 1
  /\ detectedRanges = <<SplitRange(StudentName(1), 1, 1)>>
  /\ splitStage = "CONFIRM"
  /\ alertShown = ""
  /\ gateway = GatewayIdle
  /\ analytics = AnalyticsIdle
  /\ viewer = ViewerIdle
  /\ analysedFiles = <<1>>

\* the operations that write from a snapshot, and changes made meanwhile
NextRace ==
  \/ \E v \in Views : SetCurrentView(v)
  \/ \E id \in StudentIds : setSelectedStudentId(id)
  \/ \E id \in {NoStudent} \cup StudentIds : handleStudentSubmissionUpload(id)
  \/ \E p \in inflight : SubmissionLoaded(p)
  \/ handleRosterImport
  \/ \E p \in inflight, n \in 0..MaxStudents : RosterImported(p, n)
  \/ finalizeSplit
  \/ \E p \in inflight : SplitSucceeded(p)
  \/ runAiGrading
  \/ \E p \in inflight, results \in AiResponses : AiGraded(p, results)
  \/ handleFileUpload
  \/ \E p \in inflight : \E rubric \in GeneratedRubrics(nextQuestion) :
       RubricGenerated(p, rubric)
  \/ HandleGradeChangeStep
  \/ \E id \in StudentIds : removeStudent(id)
  \/ addQuestion

SpecRace == InitRace /\ [][NextRace]_vars

\* ---------------------------------------------------------------- the splitter alone
PageNumbers == 0..(MaxPages + 1)

RangeLists ==
  UNION {[1..n -> [startPage : PageNumbers, endPage : PageNumbers]] : n \in 0..MaxRanges}

InitSplit ==
  /\ assessment = initialAssessment
  /\ currentView = "STUDENTS"
  /\ selectedStudentId = NoStudent
  /\ isAutoGrading = FALSE
  /\ isProcessing = FALSE
  /\ inflight = {}
  /\ nextQuestion = 0
  /\ nextStudent = 0
  /\ steps = 0
  /\ budget = 0
  /\ lastOp = Op("init", 0, 0, NoGradeData, <<>>)
  /\ lastInput = NoInput
  /\ pageCount \in 0..MaxPages
  /\ \E pages \in RangeLists :
       ranges = [i \in 1..Len(pages) |->
                   SplitRange(StudentName(i), pages[i].startPage, pages[i].endPage)]
  /\ splitResult = SplitIdle
  /\ UiIsIdle
  /\ gateway = GatewayIdle
  /\ analytics = AnalyticsIdle
  /\ viewer = ViewerIdle
  /\ analysedFiles = <<>>

RunSplit ==
  /\ splitResult.status = "idle"
  /\ splitResult' = splitPdfByRanges(pageCount, ranges)
  /\ UNCHANGED <<appVars, pageCount, ranges, uiVars, serviceVars>>

SpecSplit == InitSplit /\ [][RunSplit]_vars


\* ---------------------------------------------------------------- the gateway alone
InitGateway ==
  /\ assessment = initialAssessment
  /\ currentView = "SETUP"
  /\ selectedStudentId = NoStudent
  /\ isAutoGrading = FALSE
  /\ isProcessing = FALSE
  /\ inflight = {}
  /\ nextQuestion = 0
  /\ nextStudent = 0
  /\ steps = 0
  /\ budget = 0
  /\ lastOp = Op("init", 0, 0, NoGradeData, <<>>)
  /\ lastInput = NoInput
  /\ pageCount = 0
  /\ ranges = <<>>
  /\ splitResult = SplitIdle
  /\ UiIsIdle
  /\ \E env \in EnvKeys : gateway = GatewayLoaded(env)
  /\ analytics = AnalyticsIdle
  /\ viewer = ViewerIdle
  /\ analysedFiles = <<>>

gatewayFrame == <<appVars, splitVars, uiVars, analytics, viewer, analysedFiles>>

\* an operation is called: the credential check, then generateContent is awaited
GatewayCall(op) ==
  /\ gateway.pc \in {"idle", "done"}
  /\ gateway.calls < MaxCalls
  /\ LET g == [GatewayLoaded([defined |-> TRUE, value |-> gateway.apiKey])
                 EXCEPT !.op = op, !.calls = gateway.calls + 1]
     IN gateway' = IF KeyMissing(g.apiKey)
                   THEN Throw(g, "API Key not found")
                   ELSE [g EXCEPT !.pc = "awaiting", !.requests = @ + 1]
  /\ UNCHANGED gatewayFrame

\* generateContent resolved with a response whose text is text
GatewayResponds(text) ==
  /\ gateway.pc = "awaiting"
  /\ gateway' = AfterResponse([gateway EXCEPT !.remote = "responded", !.text = text], text)
  /\ UNCHANGED gatewayFrame

\* generateContent rejected
GatewayTransportFails ==
  /\ gateway.pc = "awaiting"
  /\ gateway' = Throw([gateway EXCEPT !.remote = "failed"], "transport")
  /\ UNCHANGED gatewayFrame

NextGateway ==
  \/ \E op \in GatewayOps : GatewayCall(op)
  \/ \E text \in Texts : GatewayResponds(text)
  \/ GatewayTransportFails

SpecGateway == InitGateway /\ [][NextGateway]_vars


\* ---------------------------------------------------------------- the results view alone
\* a student as Analytics reads it
ShownStudent(id, studentName, status, totalScore, grades) ==
  [id |-> id, studentName |-> studentName, hasFile |-> FALSE, grades |-> grades,
   status |-> status, totalScore |-> totalScore]

\* a rubric item as Analytics reads it
ShownItem(id, question, maxPoints) ==
  [id |-> id, question |-> question, maxPoints |-> maxPoints, type |-> "FRQ",
   correctAnswer |-> <<>>]

\* no item, an item worth nothing, an item worth 100, two items worth 50 each
ShownRubrics ==
  { <<>>,
    <<ShownItem(1, <<"Q">>, 0)>>,
    <<ShownItem(1, <<"Q">>, 100)>>,
    <<ShownItem(1, <<"Q">>, 50), ShownItem(2, <<"Q", "#", "2">>, 50)>> }

\* totals below zero, at zero, at 20% and 21% of 100 (40% and 42% of 50), above
\* every maximum
ShownTotals == {-1, 0, 20, 21, 101}

ShownStatuses == {"PENDING", "GRADED"}

StatStudents ==
  UNION {[1..n -> [status : ShownStatuses, totalScore : ShownTotals]] : n \in 0..MaxShown}

AnalyticsInit(a) ==
  /\ assessment = a
  /\ currentView = "RESULTS"
  /\ selectedStudentId = NoStudent
  /\ isAutoGrading = FALSE
  /\ isProcessing = FALSE
  /\ inflight = {}
  /\ nextQuestion = Len(a.rubric)
  /\ nextStudent = Len(a.students)
  /\ steps = 0
  /\ budget = 0
  /\ lastOp = Op("init", 0, 0, NoGradeData, <<>>)
  /\ lastInput = NoInput
  /\ pageCount = 0
  /\ ranges = <<>>
  /\ splitResult = SplitIdle
  /\ UiIsIdle
  /\ gateway = GatewayIdle
  /\ analytics = AnalyticsIdle
  /\ viewer = ViewerIdle
  /\ analysedFiles = <<>>

InitAnalytics ==
  \E rubric \in ShownRubrics, drawn \in StatStudents :
    AnalyticsInit([rubric   |-> rubric,
                   students |-> [i \in 1..Len(drawn) |->
                                   ShownStudent(i, <<StudentName(i)>>, drawn[i].status,
                                                drawn[i].totalScore, EmptyGrades)]])

analyticsFrame == <<appVars, splitVars, uiVars, gateway, viewer, analysedFiles>>

\* Analytics renders: lines 86-87, 112-131 and 174
RenderAnalytics ==
  /\ currentView = "RESULTS"
  /\ ~analytics.rendered
  /\ LET gradedStudents == GradedStudents(assessment.students)
         maxScore       == MaxScore(assessment.rubric)
     IN analytics' =
          [analytics EXCEPT
             !.rendered     = TRUE,
             !.distribution = Distribution(gradedStudents, maxScore, <<0, 0, 0, 0, 0>>),
             !.averageScore = AverageScore(gradedStudents),
             !.topScore     = TopScore(gradedStudents)]
  /\ UNCHANGED analyticsFrame

SpecAnalytics == InitAnalytics /\ [][RenderAnalytics]_vars

\* the grades and the name of an exported student: nothing graded; the first
\* item graded 7 with a comment; a name with a # in it
ShownGrades ==
  { [name |-> <<"A">>, grades |-> EmptyGrades],
    [name |-> <<"B">>,
     grades |-> [q \in {1} |-> [score |-> 7, studentAnswer |-> <<>>,
                                comment |-> <<"o", "k">>]]],
    [name |-> <<"C", "#", "1">>, grades |-> EmptyGrades] }

ExportStudents ==
  UNION {[1..n -> [status : ShownStatuses, totalScore : {0, 7}, shown : ShownGrades]]
           : n \in 0..MaxStudents}

InitExport ==
  \E rubric \in ShownRubrics, drawn \in ExportStudents :
    AnalyticsInit([rubric   |-> rubric,
                   students |-> [i \in 1..Len(drawn) |->
                                   ShownStudent(i, drawn[i].shown.name, drawn[i].status,
                                                drawn[i].totalScore,
                                                drawn[i].shown.grades)]])

\* downloadCSV, lines 89-109
downloadCSV ==
  /\ currentView = "RESULTS"
  /\ ~analytics.exported
  /\ analytics' = [analytics EXCEPT
                     !.exported = TRUE,
                     !.file = DownloadedFile(EncodeURI(CsvContent(assessment)))]
  /\ UNCHANGED analyticsFrame

SpecExport == InitExport /\ [][downloadCSV]_vars

\* ------------------------------------------------------- manual grading alone
\* GradingView mounted on a prepared rubric and a full roster; the last
\* student has been given a score on the first item, the others have no grades
InitEdits ==
  /\ \E r \in PreparedRubrics :
       /\ assessment =
            [rubric   |-> r,
             students |-> [i \in StudentIds |->
                             IF i = MaxStudents
                             THEN GradeChangeStudent(NewStudent(i, TRUE), r, 1,
                                                     GradeData({"score"}, 0, <<>>))
                             ELSE NewStudent(i, TRUE)]]
       /\ nextQuestion = Len(r)
  /\ currentView = "GRADING"
  /\ selectedStudentId = 1
  /\ isAutoGrading = FALSE
  /\ isProcessing = FALSE
  /\ inflight = {}
  /\ nextStudent = MaxStudents
  /\ steps = 0
  /\ budget = MaxEditSteps
  /\ lastOp = Op("init", 0, 0, NoGradeData, <<>>)
  /\ lastInput = NoInput
  /\ pageCount = 0
  /\ ranges = <<>>
  /\ splitResult = SplitIdle
  /\ UiIsIdle
  /\ gateway = GatewayIdle
  /\ analytics = AnalyticsIdle
  /\ viewer = ViewerIdle
  /\ analysedFiles = <<>>

\* the teacher goes through the students and edits grades
NextEdits ==
  \/ \E id \in StudentIds : setSelectedStudentId(id)
  \/ HandleGradeChangeStep

SpecEdits == InitEdits /\ [][NextEdits]_vars

\* ------------------------------------------------------ the split modal alone
\* StudentSetup mounted on the empty assessment
InitModal ==
  /\ assessment = initialAssessment
  /\ currentView = "STUDENTS"
  /\ selectedStudentId = NoStudent
  /\ isAutoGrading = FALSE
  /\ isProcessing = FALSE
  /\ inflight = {}
  /\ nextQuestion = 0
  /\ nextStudent = 0
  /\ steps = 0
  /\ budget = MaxModalSteps
  /\ lastOp = Op("init", 0, 0, NoGradeData, <<>>)
  /\ lastInput = NoInput
  /\ pageCount = 0
  /\ ranges = <<>>
  /\ splitResult = SplitIdle
  /\ UiIsIdle
  /\ gateway = GatewayIdle
  /\ analytics = AnalyticsIdle
  /\ viewer = ViewerIdle
  /\ analysedFiles = <<>>

\* the modal's buttons and completions, and leaving and reopening the tab
NextModal ==
  \/ \E v \in Views : SetCurrentView(v)
  \/ \E value \in BOOLEAN : setShowSplitModal(value)
  \/ \E file \in BulkFiles : startBulkSplit(file)
  \/ \E p \in inflight, rs \in DetectedRangeLists : RangesDetected(p, rs)
  \/ \E p \in inflight : AnalysisFailed(p)
  \/ \E idx \in 1..MaxRanges, field \in RangeFields :
       \E value \in RangeInputs(field) : setDetectedRanges(idx, field, value)
  \/ cancelSplit
  \/ finalizeSplit
  \/ \E p \in inflight : SplitSucceeded(p)
  \/ \E p \in inflight : SplitFailed(p)

SpecModal == InitModal /\ [][NextModal]_vars

\* --------------------------------------------------- the document viewer alone
\* GradingView mounted on students with and without documents, before the
\* effects of its first render
InitViewer ==
  \E fileTypes \in [StudentIds -> FileTypes] :
    /\ assessment = [rubric   |-> <<>>,
                     students |-> [i \in StudentIds |-> NewStudent(i, fileTypes[i] # "")]]
    /\ currentView = "GRADING"
    /\ selectedStudentId = NoStudent
    /\ isAutoGrading = FALSE
    /\ isProcessing = FALSE
    /\ inflight = {}
    /\ nextQuestion = 0
    /\ nextStudent = MaxStudents
    /\ steps = 0
    /\ budget = 0
    /\ lastOp = Op("init", 0, 0, NoGradeData, <<>>)
    /\ lastInput = NoInput
    /\ pageCount = 0
    /\ ranges = <<>>
    /\ splitResult = SplitIdle
    /\ UiIsIdle
    /\ gateway = GatewayIdle
    /\ analytics = AnalyticsIdle
    /\ viewer = ViewerLoaded(fileTypes)
    /\ analysedFiles = <<>>

viewerFrame == <<assessment, currentView, isAutoGrading, isProcessing, inflight,
                 nextQuestion, nextStudent, steps, budget, lastInput, splitVars,
                 uiVars, gateway, analytics, analysedFiles>>

\* setSelectedStudentId(id), by the auto-select effect (lines 27-31) for the
\* first student or by a click in the student list, and the loadPdf effect of
\* the render that follows (lines 33-62)
SelectStudent(id) ==
  /\ currentView = "GRADING"
  /\ StudentIndex(assessment.students, id) # 0
  /\ id # selectedStudentId
  /\ selectedStudentId = NoStudent => id = assessment.students[1].id
  /\ viewer.started < MaxLoads
  /\ selectedStudentId' = id
  /\ viewer' = loadPdf(viewer, id)
  /\ lastOp' = Op("selectStudent", id, 0, NoGradeData, <<>>)
  /\ UNCHANGED viewerFrame

\* lines 46-53 and 56-58: the document is decoded, setPdfPages(pages), and
\* finally setIsPdfLoading(false)
PdfLoaded(l) ==
  /\ l \in viewer.loads
  /\ viewer' = [viewer EXCEPT !.pdfPages = PdfPages(l.sid), !.isPdfLoading = FALSE,
                              !.loads = @ \ {l}]
  /\ lastOp' = Op("pdfLoaded", l.sid, 0, NoGradeData, <<>>)
  /\ UNCHANGED <<selectedStudentId, viewerFrame>>

\* lines 54-58: catch (error) { console.error } finally { setIsPdfLoading(false) }
PdfLoadFailed(l) ==
  /\ l \in viewer.loads
  /\ viewer' = [viewer EXCEPT !.isPdfLoading = FALSE, !.loads = @ \ {l}]
  /\ lastOp' = Op("pdfLoadFailed", l.sid, 0, NoGradeData, <<>>)
  /\ UNCHANGED <<selectedStudentId, viewerFrame>>

NextViewer ==
  \/ \E id \in StudentIds : SelectStudent(id)
  \/ \E l \in viewer.loads : PdfLoaded(l)
  \/ \E l \in viewer.loads : PdfLoadFailed(l)

SpecViewer == InitViewer /\ [][NextViewer]_vars


\* ---------------------------------------------------------------- properties
\* the letters match: trimmed and compared without regard to case
LettersMatch(a, b) == Trim(ToUpperCase(a)) = Trim(ToUpperCase(b))

\* the score the comparison gives an answer on a multiple-choice item
ExpectedMcqScore(item, answer) ==
  IF LettersMatch(answer, item.correctAnswer) THEN item.maxPoints ELSE 0

\* the score shown for an item: grades[id]?.score, 0 without an entry
ScoreOf(student, qid) ==
  IF qid \in DOMAIN student.grades THEN student.grades[qid].score ELSE 0

\* the answer shown for an item: grades[id]?.studentAnswer, '' without an entry
AnswerOf(student, qid) ==
  IF qid \in DOMAIN student.grades THEN student.grades[qid].studentAnswer ELSE <<>>

\* the sum of the scores of all entries of a grades mapping
RECURSIVE TotalOf(_, _)
TotalOf(student, qids) ==
  IF qids = {} THEN 0
  ELSE LET q == CHOOSE k \in qids : TRUE
       IN ScoreOf(student, q) + TotalOf(student, qids \ {q})

\* the students of the current assessment with this id
Present(id) ==
  {assessment.students[i] : i \in {k \in 1..Len(assessment.students) :
                                     assessment.students[k].id = id}}

\* the rubric items of the current assessment with this id
Items(id) ==
  {assessment.rubric[j] : j \in {k \in 1..Len(assessment.rubric) :
                                   assessment.rubric[k].id = id}}

AllStudents == {assessment.students[i] : i \in 1..Len(assessment.students)}

AllItems == {assessment.rubric[j] : j \in 1..Len(assessment.rubric)}

\* C1: after a grade mutation of a student (handleGradeChange, handleKeyChange
\* or the merge of an AI grading) the student's totalScore is the sum of the
\* scores of all entries of its grades mapping
C1_TotalIsSumOfAllGrades ==
  lastOp.op \in {"handleGradeChange", "handleKeyChange", "aiGraded"} =>
    \A s \in Present(lastOp.sid) : s.totalScore = TotalOf(s, DOMAIN s.grades)

\* C2: in every reachable state, for every student and every multiple-choice
\* item with a non-empty stored answer and a non-empty key, the stored score is
\* maxPoints when the letters match and 0 otherwise
C2_McqScoreFollowsKey ==
  \A s \in AllStudents : \A item \in AllItems :
    (/\ item.type = "MCQ"
     /\ Truthy(item.correctAnswer)
     /\ Truthy(AnswerOf(s, item.id)))
    => ScoreOf(s, item.id) = ExpectedMcqScore(item, AnswerOf(s, item.id))

\* C3: a student that is GRADED and still present after a step is still GRADED
C3_StatusOneWay ==
  [][\A i \in 1..Len(assessment.students) :
       assessment.students[i].status = "GRADED" =>
         \A j \in 1..Len(assessment'.students) :
           assessment'.students[j].id = assessment.students[i].id =>
             assessment'.students[j].status = "GRADED"]_vars


\* C4: an edit of the student letter of a multiple-choice item with a non-empty
\* key stores the trimmed, upper-cased letter, scores the item maxPoints when
\* the letters match and 0 otherwise whatever score came with the edit, and
\* leaves the student GRADED
C4_AnswerEditScoresByKey ==
  (lastOp.op = "handleGradeChange" /\ "studentAnswer" \in lastOp.gradeData.fields) =>
    \A item \in Items(lastOp.qid) :
      (item.type = "MCQ" /\ Truthy(item.correctAnswer)) =>
        /\ Present(lastOp.sid) # {}
        /\ \A s \in Present(lastOp.sid) :
             /\ lastOp.qid \in DOMAIN s.grades
             /\ AnswerOf(s, lastOp.qid) = Trim(ToUpperCase(lastOp.gradeData.studentAnswer))
             /\ ScoreOf(s, lastOp.qid) =
                  ExpectedMcqScore(item, lastOp.gradeData.studentAnswer)
             /\ s.status = "GRADED"

\* C4 happens: the letter "b" arrives with a score of 0 on an item whose key
\* is "B", and the item is scored maxPoints
C4_AnswerEditHappens ==
  /\ lastOp.op = "handleGradeChange"
  /\ lastOp.gradeData = GradeData({"studentAnswer", "score"}, 0, <<"b">>)
  /\ \E item \in Items(lastOp.qid) : \E s \in Present(lastOp.sid) :
       /\ item.type = "MCQ"
       /\ item.correctAnswer = <<"B">>
       /\ item.maxPoints > 0
       /\ AnswerOf(s, item.id) = <<"B">>
       /\ ScoreOf(s, item.id) = item.maxPoints
       /\ s.status = "GRADED"

\* C5: when the key of a multiple-choice item changes, in the grading view or
\* in the rubric setup, every student with a non-empty answer for the item has
\* the item's score recomputed from the new key
C5_KeyChangeRegradesEveryStudent ==
  [][\A j \in 1..Len(assessment'.rubric) :
       LET item == assessment'.rubric[j] IN
       (/\ lastOp'.op \in {"handleKeyChange", "updateQuestion"}
        /\ item.type = "MCQ"
        /\ \E old \in Items(item.id) : old.correctAnswer # item.correctAnswer)
       => \A i \in 1..Len(assessment'.students) :
            LET s == assessment'.students[i] IN
            Truthy(AnswerOf(s, item.id)) =>
              ScoreOf(s, item.id) = ExpectedMcqScore(item, AnswerOf(s, item.id))]_vars

\* the result a merge applies last for an item
LastResultFor(results, qid) ==
  results[CHOOSE k \in 1..Len(results) :
            /\ results[k].questionId = qid
            /\ \A m \in (k + 1)..Len(results) : results[m].questionId # qid]

ResultIdsOf(results) == {results[k].questionId : k \in 1..Len(results)}

\* C6 as stated: after the merge of an AI grading every multiple-choice item
\* with a result is scored by the comparison of the detected letter with the
\* key, never by the suggested score
C6_AiMergeRederivesEveryMcq ==
  lastOp.op = "aiGraded" =>
    \A s \in Present(lastOp.sid) : \A item \in AllItems :
      (item.type = "MCQ" /\ item.id \in ResultIdsOf(lastOp.results)) =>
        ScoreOf(s, item.id) =
          ExpectedMcqScore(item, LastResultFor(lastOp.results, item.id).studentAnswer)

\* C6 amended: after the merge of an AI grading a multiple-choice item with a
\* result is scored by the comparison when its key and the detected letter are
\* both non-empty, whatever score was suggested, and carries the suggested
\* score otherwise
C6_AiMergeRederivesWhenComparable ==
  lastOp.op = "aiGraded" =>
    /\ Present(lastOp.sid) # {}
    /\ \A s \in Present(lastOp.sid) : \A item \in AllItems :
         (item.type = "MCQ" /\ item.id \in ResultIdsOf(lastOp.results)) =>
           LET res == LastResultFor(lastOp.results, item.id) IN
           /\ item.id \in DOMAIN s.grades
           /\ ScoreOf(s, item.id) =
                IF Truthy(item.correctAnswer) /\ Truthy(res.studentAnswer)
                THEN ExpectedMcqScore(item, res.studentAnswer)
                ELSE res.score

\* C6 happens: a result suggests 0 for a detected " b" on an item whose key is
\* "B", and the merge stores maxPoints
C6_AiMergeHappens ==
  /\ lastOp.op = "aiGraded"
  /\ \E item \in AllItems : \E s \in Present(lastOp.sid) :
       /\ item.type = "MCQ"
       /\ item.correctAnswer = <<"B">>
       /\ item.maxPoints > 0
       /\ item.id \in ResultIdsOf(lastOp.results)
       /\ LastResultFor(lastOp.results, item.id).score = 0
       /\ LastResultFor(lastOp.results, item.id).studentAnswer = <<" ", "b">>
       /\ ScoreOf(s, item.id) = item.maxPoints

\* C7: in every reachable state the score of a free-response item is the value
\* last typed into its score field or last suggested by an AI grading for that
\* student and item, and 0 when there was neither
C7_FrqScoreIsLastInput ==
  \A s \in AllStudents : \A item \in AllItems :
    item.type = "FRQ" =>
      ScoreOf(s, item.id) \in (IF lastInput[s.id][item.id] = {} THEN {0}
                               ELSE lastInput[s.id][item.id])


\* the documents a finished split emitted under this name
DocsFor(name) ==
  {d \in 1..Len(splitResult.docs) : splitResult.docs[d].studentName = name}

\* zero-based page indices first..last in ascending order
PagesFromTo(first, last) ==
  [k \in 1..(IF last >= first THEN last - first + 1 ELSE 0) |-> first + k - 1]

\* the only ranges that make a split fail are those that start below page 1
FailsOnlyBelowPageOne ==
  splitResult.status = "rejected" =>
    \E j \in 1..Len(ranges) : ranges[j].startPage < 1

\* C8: a range with 1 <= startPage <= endPage <= pageCount never makes the
\* split fail, and the resolved split holds one document for it with exactly
\* the endPage - startPage + 1 pages startPage..endPage in their original order
C8_ValidRangeYieldsItsPages ==
  splitResult.status # "idle" =>
    \A i \in 1..Len(ranges) :
      (1 <= ranges[i].startPage /\ ranges[i].startPage <= ranges[i].endPage
       /\ ranges[i].endPage <= pageCount) =>
        /\ FailsOnlyBelowPageOne
        /\ splitResult.status = "resolved" =>
             /\ Cardinality(DocsFor(ranges[i].studentName)) = 1
             /\ \A d \in DocsFor(ranges[i].studentName) :
                  /\ Len(splitResult.docs[d].pages) =
                       ranges[i].endPage - ranges[i].startPage + 1
                  /\ splitResult.docs[d].pages =
                       PagesFromTo(ranges[i].startPage - 1, ranges[i].endPage - 1)

\* C8 happens: two ranges inside a 4-page source, each emitted with its pages
C8_ValidRangeHappens ==
  /\ pageCount = 4
  /\ Len(ranges) = 2
  /\ ranges[1].startPage = 2 /\ ranges[1].endPage = 4
  /\ ranges[2].startPage = 1 /\ ranges[2].endPage = 1
  /\ splitResult = [status |-> "resolved",
                    docs |-> << [studentName |-> "Alice", pages |-> <<1, 2, 3>>],
                                [studentName |-> "Bob", pages |-> <<0>>] >>]

\* C9: a range with startPage > endPage never makes the split fail and gets no
\* document in the resolved split, and the other ranges of the call that
\* select a page of the source are still emitted
C9_BackwardRangeIsOmitted ==
  splitResult.status # "idle" =>
    \A i \in 1..Len(ranges) :
      ranges[i].startPage > ranges[i].endPage =>
        /\ FailsOnlyBelowPageOne
        /\ splitResult.status = "resolved" =>
             /\ DocsFor(ranges[i].studentName) = {}
             /\ \A j \in 1..Len(ranges) :
                  (/\ ranges[j].startPage <= ranges[j].endPage
                   /\ ranges[j].startPage <= pageCount)
                  => Cardinality(DocsFor(ranges[j].studentName)) = 1

\* C9 happens: Alice 1-2 and Bob 3-2 on a 4-page source give one document,
\* Alice with 2 pages
C9_BackwardRangeHappens ==
  /\ pageCount = 4
  /\ ranges = << SplitRange("Alice", 1, 2), SplitRange("Bob", 3, 2) >>
  /\ splitResult = [status |-> "resolved",
                    docs |-> << [studentName |-> "Alice", pages |-> <<0, 1>>] >>]

\* C10: a range with startPage >= 1 and endPage > pageCount never makes the
\* split fail; the resolved split holds for it the pages startPage..pageCount,
\* and no document when startPage is beyond the last page too
C10_OverlongRangeIsClipped ==
  splitResult.status # "idle" =>
    \A i \in 1..Len(ranges) :
      (ranges[i].startPage >= 1 /\ ranges[i].endPage > pageCount) =>
        /\ FailsOnlyBelowPageOne
        /\ splitResult.status = "resolved" =>
             IF ranges[i].startPage > pageCount
             THEN DocsFor(ranges[i].studentName) = {}
             ELSE /\ Cardinality(DocsFor(ranges[i].studentName)) = 1
                  /\ \A d \in DocsFor(ranges[i].studentName) :
                       splitResult.docs[d].pages =
                         PagesFromTo(ranges[i].startPage - 1, pageCount - 1)

\* C10 happens: on a 3-page source, 2-5 is clipped to pages 2..3 and 4-5 is
\* omitted
C10_OverlongRangeHappens ==
  /\ pageCount = 3
  /\ ranges = << SplitRange("Alice", 2, 5), SplitRange("Bob", 4, 5) >>
  /\ splitResult = [status |-> "resolved",
                    docs |-> << [studentName |-> "Alice", pages |-> <<1, 2>>] >>]


\* a range selects a page of the source: some page number in startPage..endPage
\* is at most the page count
HasValidPage(range, count) ==
  range.startPage <= range.endPage /\ range.startPage <= count

\* the names of the ranges that select a page of the source, in input order
RECURSIVE NamesWithPages(_, _)
NamesWithPages(rs, count) ==
  IF rs = <<>> THEN <<>>
  ELSE (IF HasValidPage(Head(rs), count) THEN <<Head(rs).studentName>> ELSE <<>>)
       \o NamesWithPages(Tail(rs), count)

\* C11: the output of a resolved split is the input range list without the
\* ranges that select no page of the source, in unchanged order, each entry
\* under its range's name and none with an empty page set
C11_OutputKeepsInputOrder ==
  splitResult.status = "resolved" =>
    /\ [d \in 1..Len(splitResult.docs) |-> splitResult.docs[d].studentName]
         = NamesWithPages(ranges, pageCount)
    /\ \A d \in 1..Len(splitResult.docs) : Len(splitResult.docs[d].pages) > 0

\* C11 happens: on a 3-page source both ranges are emitted, in input order
\* and under their names, although the second one comes first in the source
C11_OutputOrderHappens ==
  /\ pageCount = 3
  /\ ranges = << SplitRange("Alice", 3, 3), SplitRange("Bob", 1, 2) >>
  /\ splitResult = [status |-> "resolved",
                    docs |-> << [studentName |-> "Alice", pages |-> <<2>>],
                                [studentName |-> "Bob", pages |-> <<0, 1>>] >>]

\* C12: a finished split holds a document for every range that starts at page
\* 1 or later and selects a page of the source, whatever the other ranges of
\* the call are
C12_RangesAreIndependent ==
  splitResult.status # "idle" =>
    \A i \in 1..Len(ranges) :
      (ranges[i].startPage >= 1 /\ HasValidPage(ranges[i], pageCount)) =>
        /\ splitResult.status = "resolved"
        /\ DocsFor(ranges[i].studentName) # {}

\* C13: a failed bulk split adds no student, sets the error message, puts the
\* split stage back to CONFIRM and keeps the bulk file and the detected ranges
C13_FailedSplitAddsNothingAndKeepsBatch ==
  [][lastOp'.op = "splitFailed" =>
       /\ assessment' = assessment
       /\ importError' = "Failed to split PDF file."
       /\ splitStage' = "CONFIRM"
       /\ bulkFile' # 0
       /\ detectedRanges' # <<>>]_vars

\* C14: with an empty credential every gateway operation ends with the
\* configuration error and has sent no request
C14_EmptyCredentialFailsBeforeRequest ==
  (gateway.pc # "idle" /\ gateway.apiKey = <<>>) =>
    /\ gateway.pc = "done"
    /\ gateway.outcome = "rejected"
    /\ gateway.error = "API Key not found"
    /\ gateway.requests = 0
    /\ gateway.remote = "none"

C14_EmptyCredentialHappens ==
  /\ gateway.op = "gradeStudentSubmission"
  /\ gateway.apiKey = <<>>
  /\ gateway.calls = 2
  /\ gateway.outcome = "rejected"
  /\ gateway.requests = 0

\* C15 as stated: every finished invocation has sent exactly one request; an
\* empty response text gives the empty array; a transport or parse failure
\* rejects with that failure and no value
C15_ExactlyOneRequestPerInvocation ==
  gateway.pc = "done" =>
    /\ gateway.requests = 1
    /\ (gateway.remote = "responded" /\ gateway.text = <<>>) =>
         (gateway.outcome = "resolved" /\ gateway.value = JsonArray(<<>>))
    /\ (gateway.remote = "failed") =>
         (gateway.outcome = "rejected" /\ gateway.error = "transport"
            /\ gateway.value = NoValue)
    /\ (gateway.remote = "responded" /\ gateway.text # <<>> /\ ~JSONParse(gateway.text).ok) =>
         (gateway.outcome = "rejected" /\ gateway.error = "SyntaxError"
            /\ gateway.value = NoValue)

\* C15, amended: an invocation sends one request when the credential is set
\* and none when it is empty, never more; an empty response text gives the
\* empty array; a transport or parse failure rejects with that failure and no
\* value
C15_OneRequestWhenCredentialSet ==
  /\ gateway.requests = (IF gateway.pc = "idle" \/ gateway.apiKey = <<>> THEN 0 ELSE 1)
  /\ gateway.pc = "done" =>
       /\ (gateway.remote = "responded" /\ gateway.text = <<>>) =>
            (gateway.outcome = "resolved" /\ gateway.value = JsonArray(<<>>))
       /\ (gateway.remote = "failed") =>
            (gateway.outcome = "rejected" /\ gateway.error = "transport"
               /\ gateway.value = NoValue)
       /\ (gateway.remote = "responded" /\ gateway.text # <<>>
             /\ ~JSONParse(gateway.text).ok) =>
            (gateway.outcome = "rejected" /\ gateway.error = "SyntaxError"
               /\ gateway.value = NoValue)

C15_ParseFailureHappens ==
  /\ gateway.pc = "done"
  /\ gateway.op = "parseStudentRoster"
  /\ gateway.remote = "responded"
  /\ gateway.text = <<"[", "x">>
  /\ gateway.outcome = "rejected"
  /\ gateway.requests = 1

\* the steps in which a gateway call fails at a call site
GatewayFailureOps == {"rubricFailed", "rosterFailed", "analysisFailed", "aiGradingFailed"}

\* C16: a failed gateway call leaves the assessment unchanged, raises a
\* user-visible error, clears the busy state of its operation and starts no
\* further request
C16_GatewayFailureIsReported ==
  [][lastOp'.op \in GatewayFailureOps =>
       /\ assessment' = assessment
       /\ inflight' \subseteq inflight
       /\ lastOp'.op = "rubricFailed" => (error' # "" /\ ~isGenerating')
       /\ lastOp'.op = "rosterFailed" => (importError' # "" /\ ~isProcessing')
       /\ lastOp'.op = "analysisFailed" => (importError' # "" /\ splitStage' = "UPLOAD")
       /\ lastOp'.op = "aiGradingFailed" => (alertShown' # "" /\ ~isAutoGrading')]_vars

\* C17: once the read of a selected file has failed and no completion is left
\* to run, an error message is shown and the operation is no longer busy
C17_ReadFailureIsSurfaced ==
  [][(lastOp'.op = "readFailed" /\ inflight' = {}) =>
       /\ error' # "" \/ importError' # ""
       /\ ~isGenerating'
       /\ ~isProcessing'
       /\ splitStage' # "ANALYZING"]_vars

\* the graded students, by position in the list
GradedIndices == {i \in 1..Len(assessment.students) : assessment.students[i].status = "GRADED"}

\* the band the claim gives a total: 1 up to and including 20% of the maximum
\* (and for every total when the maximum is 0), 2 above 20% up to 40%, and so
\* on; 5 above 80%
ClaimedBand(totalScore, maxScore) ==
  IF maxScore <= 0 THEN 1
  ELSE IF \E k \in 1..4 : 100 * totalScore <= 20 * k * maxScore
       THEN CHOOSE k \in 1..4 :
              /\ 100 * totalScore <= 20 * k * maxScore
              /\ \A j \in 1..(k - 1) : 100 * totalScore > 20 * j * maxScore
       ELSE 5

\* C18: the five counts are, band by band, the numbers of graded students
\* whose percentage lies in the band, so they sum to the number of graded
\* students and no ungraded student is counted
C18_EveryGradedStudentInOneBand ==
  analytics.rendered =>
    /\ \A k \in 1..5 :
         analytics.distribution[k] =
           Cardinality({i \in GradedIndices :
                          ClaimedBand(assessment.students[i].totalScore,
                                      MaxScore(assessment.rubric)) = k})
    /\ analytics.distribution[1] + analytics.distribution[2] + analytics.distribution[3]
         + analytics.distribution[4] + analytics.distribution[5]
         = Cardinality(GradedIndices)

\* a graded student at exactly 20% and one at 21% of a maximum of 100, and an
\* ungraded student
C18_BandEdgesHappen ==
  /\ analytics.rendered
  /\ MaxScore(assessment.rubric) = 100
  /\ Len(assessment.students) = 3
  /\ assessment.students[1].status = "GRADED" /\ assessment.students[1].totalScore = 20
  /\ assessment.students[2].status = "GRADED" /\ assessment.students[2].totalScore = 21
  /\ assessment.students[3].status = "PENDING"
  /\ analytics.distribution = <<1, 1, 0, 0, 0>>

\* the sum and the greatest of the totals of the graded students
RECURSIVE SumOfTotals(_)
SumOfTotals(indices) ==
  IF indices = {} THEN 0
  ELSE LET i == CHOOSE j \in indices : TRUE
       IN assessment.students[i].totalScore + SumOfTotals(indices \ {i})

GradedTotals == {assessment.students[i].totalScore : i \in GradedIndices}

\* C19 as stated: the average shown is the mean of the totals of the graded
\* students and the top score is their greatest total; both are 0 when no
\* student is graded (averageScore is in tenths)
C19_AverageIsMeanTopIsMax ==
  analytics.rendered =>
    IF GradedIndices = {}
    THEN analytics.averageScore = 0 /\ analytics.topScore = 0
    ELSE /\ analytics.averageScore * Cardinality(GradedIndices)
              = 10 * SumOfTotals(GradedIndices)
         /\ analytics.topScore \in GradedTotals
         /\ \A t \in GradedTotals : t <= analytics.topScore

\* C19, amended: the average shown is the mean of the totals of the graded
\* students rounded to the nearest tenth; the top score is the greatest of
\* their totals and 0, so it is 0 when every graded total is negative; both
\* are 0 when no student is graded
C19_AverageIsRoundedMeanTopIsMaxOrZero ==
  analytics.rendered =>
    IF GradedIndices = {}
    THEN analytics.averageScore = 0 /\ analytics.topScore = 0
    ELSE /\ 2 * Abs(analytics.averageScore * Cardinality(GradedIndices)
                      - 10 * SumOfTotals(GradedIndices))
              <= Cardinality(GradedIndices)
         /\ analytics.topScore \in GradedTotals \cup {0}
         /\ \A t \in GradedTotals \cup {0} : t <= analytics.topScore

\* three graded students with totals 20, 0 and 0: the mean 6.66... is shown
\* as 6.7
C19_RoundedAverageHappens ==
  /\ analytics.rendered
  /\ Len(assessment.students) = 3
  /\ \A i \in 1..3 : assessment.students[i].status = "GRADED"
  /\ assessment.students[1].totalScore = 20
  /\ assessment.students[2].totalScore = 0
  /\ assessment.students[3].totalScore = 0
  /\ analytics.averageScore = 67
  /\ analytics.topScore = 20

\* the lines of a file that end with a line feed
RECURSIVE CompleteLines(_, _)
CompleteLines(file, line) ==
  IF file = <<>> THEN <<>>
  ELSE IF Head(file) = "\n" THEN <<line>> \o CompleteLines(Tail(file), <<>>)
       ELSE CompleteLines(Tail(file), Append(line, Head(file)))

\* the rows after the header row
DataRows(file) ==
  LET lines == CompleteLines(file, <<>>)
  IN IF lines = <<>> THEN <<>> ELSE Tail(lines)

\* the first columns of the row of a student: the name, the stored total, and
\* for each rubric item in order the stored score or 0
ClaimedColumns(student, rubric) ==
  Quoted(student.studentName) \o <<",">> \o NumberToString(student.totalScore) \o <<",">>
    \o Join([i \in 1..Len(rubric) |->
               NumberToString(IF rubric[i].id \in DOMAIN student.grades
                              THEN student.grades[rubric[i].id].score ELSE 0)],
            <<",">>)
    \o <<",">>

\* C20: the exported file has one data row per student, graded or not, in list
\* order, and each row starts with the name, the stored total and one score
\* per rubric item
C20_OneRowPerStudent ==
  analytics.exported =>
    LET rows == DataRows(analytics.file) IN
    /\ Len(rows) = Len(assessment.students)
    /\ \A i \in 1..Len(assessment.students) :
         LET columns == ClaimedColumns(assessment.students[i], assessment.rubric)
         IN /\ i <= Len(rows)
            /\ Len(rows[i]) >= Len(columns)
            /\ SubSeq(rows[i], 1, Len(columns)) = columns

\* the ids of the students of an assessment
IdsOf(a) == {a.students[i].id : i \in 1..Len(a.students)}

\* the completions of the two imports that add students
ImportCompletions == {"rosterImported", "submissionLoaded"}

\* C21: when two imports of the same kind were in flight together and both
\* have completed, one right after the other, the students the first
\* completion left in the list are still in it after the second
C21_BothImportsAreMerged ==
  [][(/\ lastOp'.op \in ImportCompletions
      /\ lastOp.op = lastOp'.op
      /\ lastOp.sid = NoStudent /\ lastOp'.sid = NoStudent)
       => IdsOf(assessment) \subseteq IdsOf(assessment')]_vars

\* the completions that write an assessment
WritingCompletions ==
  {"submissionLoaded", "rosterImported", "splitSucceeded", "aiGraded", "rubricGenerated"}

\* the handlers that start an operation whose completion writes
StartingHandlers ==
  {"handleStudentSubmissionUpload", "handleRosterImport", "finalizeSplit", "runAiGrading",
   "handleFileUpload"}

\* the completions that append students
AppendingCompletions == {"rosterImported", "splitSucceeded"}

\* C22: an operation captures the assessment of the moment it starts, and
\* what its completion writes is that snapshot with its own result put in:
\* the rubric of the snapshot (for rubric generation: the students of the
\* snapshot), and the snapshot's records of all students it did not produce,
\* whatever the assessment was just before
C22_CompletionWritesFromItsSnapshot ==
  [][/\ lastOp'.op \in StartingHandlers =>
          \A p \in inflight' \ inflight : p.snap = assessment
     /\ (lastOp'.op \in WritingCompletions /\ assessment' # assessment) =>
       \E p \in inflight \ inflight' :
         LET old == p.snap.students
             new == assessment'.students
         IN /\ lastOp'.op # "rubricGenerated" => assessment'.rubric = p.snap.rubric
            /\ lastOp'.op = "rubricGenerated" => new = old
            /\ (lastOp'.op \in AppendingCompletions
                  \/ (lastOp'.op = "submissionLoaded" /\ p.sid = NoStudent)) =>
                 (Len(new) >= Len(old) /\ SubSeq(new, 1, Len(old)) = old)
            /\ (lastOp'.op = "aiGraded"
                  \/ (lastOp'.op = "submissionLoaded" /\ p.sid # NoStudent)) =>
                 /\ Len(new) = Len(old)
                 /\ \A i \in 1..Len(old) : old[i].id # p.sid => new[i] = old[i]]_vars

\* a score typed for student 1 while the grading request was in flight is
\* gone after the response, which suggested nothing, was merged
C22_EditLostHappens ==
  /\ lastOp.op = "aiGraded"
  /\ lastOp.sid = 1
  /\ lastOp.results = <<>>
  /\ lastInput[1][1] = {1}
  /\ Len(assessment.students) = 1
  /\ 1 \notin DOMAIN assessment.students[1].grades

\* C23: selecting another student cancels no load in flight; a load that
\* completes puts its own document's pages on display whoever is selected then,
\* so the pages shown are those of the load that completed last; a load that
\* fails leaves the pages on display as they were.
C23_LastCompletedLoadIsDisplayed ==
  [][/\ lastOp'.op = "selectStudent" => viewer.loads \subseteq viewer'.loads
     /\ lastOp'.op = "pdfLoaded" =>
           /\ \E l \in viewer.loads \ viewer'.loads : l.sid = lastOp'.sid
           /\ viewer'.pdfPages = PdfPages(lastOp'.sid)
     /\ lastOp'.op = "pdfLoadFailed" => viewer'.pdfPages = viewer.pdfPages]_vars

\* two loads were in flight, and the pages on display are those of a student
\* who is no longer selected
C23_StalePagesHappen ==
  /\ lastOp.op = "pdfLoaded"
  /\ lastOp.sid # selectedStudentId
  /\ viewer.started >= 2
  /\ viewer.loads = {}
  /\ viewer.pdfPages = PdfPages(lastOp.sid)

\* the moves of the split stage
StageMoves ==
  { <<"UPLOAD", "ANALYZING">>,
    <<"ANALYZING", "CONFIRM">>, <<"ANALYZING", "UPLOAD">>,
    <<"CONFIRM", "PROCESSING">>, <<"CONFIRM", "UPLOAD">>,
    <<"PROCESSING", "UPLOAD">>, <<"PROCESSING", "CONFIRM">> }

\* C24: the split stage only moves UPLOAD -> ANALYZING, ANALYZING -> CONFIRM or
\* UPLOAD, CONFIRM -> PROCESSING or UPLOAD, PROCESSING -> UPLOAD or CONFIRM; and
\* Confirm & Split with no bulk file or an empty range list changes neither the
\* stage nor the assessment.
C24_StageMoves ==
  [][/\ splitStage' # splitStage => <<splitStage, splitStage'>> \in StageMoves
     /\ (/\ lastOp'.op = "finalizeSplit"
         /\ (bulkFile = 0 \/ detectedRanges = <<>>)) =>
           (splitStage' = splitStage /\ assessment' = assessment)]_vars

\* Confirm & Split was pressed on an empty list of detected ranges
C24_ConfirmWithNothingHappens ==
  /\ lastOp.op = "finalizeSplit"
  /\ splitStage = "CONFIRM"
  /\ bulkFile # 0
  /\ detectedRanges = <<>>

\* C25: a successful bulk split appends to the students there are, in the order
\* of the splitter's output, one new student per document (PENDING, no grades,
\* totalScore 0, application/pdf, the range's name), leaves the existing
\* students unchanged and resets the modal (stage UPLOAD, no bulk file, no
\* detected ranges).
C25_SplitAppendsAndResets ==
  [][lastOp'.op = "splitSucceeded" =>
       \E p \in inflight \ inflight' :
         LET docs == splitPdfByRanges(p.file, p.ranges).docs
             old  == assessment.students
             new  == assessment'.students
         IN /\ Len(new) = Len(old) + Len(docs)
            /\ SubSeq(new, 1, Len(old)) = old
            /\ \A i \in 1..Len(docs) :
                 LET s == new[Len(old) + i]
                 IN /\ s.status = "PENDING"
                    /\ s.grades = EmptyGrades
                    /\ s.totalScore = 0
                    /\ s.fileType = "application/pdf"
                    /\ s.studentName = docs[i].studentName
            /\ splitStage' = "UPLOAD"
            /\ bulkFile' = 0
            /\ detectedRanges' = <<>>]_vars

\* C26: a manual grade edit runs for a selected student only, and changes only
\* that student's record: the rubric and every other part of the assessment,
\* every other student, and the student's id, file and other grade entries are
\* as before; the student's grades gain at most the edited item's entry.
C26_GradeEditFrame ==
  [][lastOp'.op = "handleGradeChange" =>
       LET old == assessment.students
           new == assessment'.students
           qid == lastOp'.qid
       IN /\ SelectedIndex # 0
          /\ DOMAIN assessment' = DOMAIN assessment
          /\ \A f \in DOMAIN assessment \ {"students"} : assessment'[f] = assessment[f]
          /\ Len(new) = Len(old)
          /\ \A i \in 1..Len(old) :
               IF old[i].id # selectedStudentId
               THEN new[i] = old[i]
               ELSE /\ new[i].id = old[i].id
                    /\ new[i].hasFile = old[i].hasFile
                    /\ DOMAIN new[i].grades = DOMAIN old[i].grades \cup {qid}
                    /\ \A q \in DOMAIN old[i].grades \ {qid} :
                         new[i].grades[q] = old[i].grades[q]]_vars

\* the second item of a student was edited after the first, with another
\* student graded as well
C26_GradeEditHappens ==
  /\ lastOp.op = "handleGradeChange"
  /\ Len(assessment.students) >= 2
  /\ \E i, j \in 1..Len(assessment.students) :
       /\ assessment.students[i].id = lastOp.sid
       /\ Cardinality(DOMAIN assessment.students[i].grades) >= 2
       /\ assessment.students[j].id # lastOp.sid
       /\ assessment.students[j].status = "GRADED"

\* C27: in every reachable state a student whose status is PENDING has no grade
\* entry and totalScore 0, so a student with a grade entry is GRADED.
C27_PendingHasNoGrades ==
  \A i \in 1..Len(assessment.students) :
    assessment.students[i].status = "PENDING" =>
      /\ assessment.students[i].grades = EmptyGrades
      /\ assessment.students[i].totalScore = 0

\* a file was attached to a student of a roster in which one student has been
\* graded by hand and another is still pending
C27_PendingBesideGradedHappens ==
  /\ lastOp.op = "submissionLoaded"
  /\ lastOp.sid # NoStudent
  /\ \E i, j \in 1..Len(assessment.students) :
       /\ assessment.students[i].status = "PENDING"
       /\ assessment.students[j].status = "GRADED"
       /\ assessment.students[j].grades # EmptyGrades

\* the ids of the items of a rubric
RubricIds(rubric) == {rubric[i].id : i \in 1..Len(rubric)}

\* C28: in every reachable state every key of every student's grades is the id
\* of an item that is in the rubric, so totalScore counts no points of an item
\* that is not in the rubric.
C28_GradesBelongToRubric ==
  \A i \in 1..Len(assessment.students) :
    DOMAIN assessment.students[i].grades \subseteq RubricIds(assessment.rubric)

\* C29: whenever the split stage is CONFIRM or PROCESSING, the detected ranges
\* on display were stored by the analysis of the bulk file that is stored now,
\* not by the analysis of a file uploaded before it.
C29_RangesBelongToStoredFile ==
  splitStage \in {"CONFIRM", "PROCESSING"} =>
    /\ bulkFile # 0
    /\ analysedFiles # <<>>
    /\ analysedFiles[Len(analysedFiles)] = bulkFile

\* the ranges of a second, different file are on display after the ranges of
\* the first were cancelled
C29_SecondFileConfirmHappens ==
  /\ splitStage = "CONFIRM"
  /\ Len(analysedFiles) = 2
  /\ analysedFiles[1] # analysedFiles[2]
  /\ bulkFile = analysedFiles[2]

\* the AI grading requests that have not completed
GradingRequests == {p \in inflight : p.kind = "grade"}

\* C30: at most one AI grading request is in flight at any time, whatever
\* students are selected and views are visited in between.
C30_OneGradingRequestInFlight == Cardinality(GradingRequests) <= 1
====
